---- MODULE Spec2Model ----
(***************************************************************************)
(* Model of the serial LCD drivers of artvel/display.                      *)
(*                                                                         *)
(* Part 1 models the asustor session that serializes its callers with a    *)
(* mutex (src/unnamed/part_001, lines 1-342): the callers of Open, Close,  *)
(* Write and Enable, the lock-free Listen loop, the background reader      *)
(* goroutines started by Open, the two buffered channels readC and btnC,   *)
(* and the device at the other end of the serial line. Part 2 models       *)
(* readWithTimeout, part 3 asustorLCD (src/asustor.go) and part 4 qnap     *)
(* (src/generic.go). The variable driver says which of the three a session *)
(* is; every action belongs to one driver. SpecTimed adds the time between *)
(* transmissions (lastFlush and the frames sent), SpecQnapListen the       *)
(* history of one qnap.Listen call, and SpecPure applies the pure          *)
(* functions of the write path to arguments of a bounded set. SpecNoisy    *)
(* has a line that delivers frames with a wrong checksum, SpecReaders has  *)
(* room for the reader goroutine of an earlier Open next to the latest,    *)
(* and SpecBytes follows read() byte by byte (variable bs).                *)
(***************************************************************************)
EXTENDS Integers, Sequences, FiniteSets, TLC

(***************************************************************************)
(* Bounds of the model.                                                    *)
(***************************************************************************)
\* Capacity of readC and of btnC (make(chan []byte, 100) in the source,
\* scaled down so that a full channel is reachable).
QueueCap == 2
\* Frames the device has put on the line that no Read has returned yet.
MaxWire == 1
\* Reader goroutines that can be alive at once.
MaxReaders == 1
\* Frames one qnap.Listen call reads while its history is kept.
MaxRaw == 4
\* Longest byte sequence given to makemsg, and longest text given to Write.
MaxLen == 3
MaxTxt == 18
\* Bytes the line delivers while the reader is followed byte by byte.
MaxStream == 8
\* Milliseconds that pass in one step of the clock.
TickMs == 5

(***************************************************************************)
(* Program constants.                                                      *)
(***************************************************************************)
cmdByte == 240
replyByte == 241
msgSize == 5
\* write() gives up when retry > RetryLimit.
RetryLimit == 10

cmdDisplayStatus == <<cmdByte, 1, 17, 1>>
cmdDisplayOff == <<cmdByte, 1, 17, 0>>
cmdClearDisplay == <<cmdByte, 1, 18, 1>>
cmdDisplayOn == <<cmdByte, 1, 34, 0>>
cmdBtn == <<cmdByte, 1, 128>>
replyOkayCheck1 == <<replyByte, 1, 17, 0, 3>>
replyOkayCheck2 == <<replyByte, 1, 17, 4, 7>>
replyOkayCheck3 == <<replyByte, 1, 39, 4, 29>>
replyMsgSentCheck == <<replyByte, 1, 39, 0, 25>>

\* The text "Hello" as bytes, and a space.
Hello == <<72, 101, 108, 108, 111>>
Space == 32
\* DefaultDelayBetweenWrites, in milliseconds
DefaultDelayBetweenWrites == 10

(***************************************************************************)
(* Pure helpers.                                                           *)
(***************************************************************************)
RECURSIVE SumBytes(_)
SumBytes(s) == IF s = <<>> THEN 0 ELSE s[1] + SumBytes(Tail(s))

\* checksum: s += bb for every byte, s being a byte
RECURSIVE checksumFrom(_, _)
checksumFrom(s, b) ==
    IF b = <<>> THEN s ELSE checksumFrom((s + Head(b)) % 256, Tail(b))

\* Mutant of checksum: the sum does not wrap.
checksumNoWrap(b) == SumBytes(b)

checksum(b) == checksumFrom(0, b)

\* Mutant of makemsg: the copy of msg alone.
makemsgNoSum(msg) == msg

\* makemsg: a copy of msg followed by its checksum.
makemsg(msg) == Append(msg, checksum(msg))

\* bytes.HasPrefix
HasPrefix(s, p) == Len(s) >= Len(p) /\ SubSeq(s, 1, Len(p)) = p

\* strings.Repeat(" ", n)
Repeat(n) == [i \in 1..n |-> Space]

\* Mutant of prepareTxt: a longer text is not cut.
prepareTxtNoCut(txt) ==
    IF Len(txt) < 16 THEN txt \o Repeat(16 - Len(txt)) ELSE txt

\* prepareTxt: cut to 16 bytes, or pad with spaces to 16 bytes.
prepareTxt(txt) ==
    IF Len(txt) > 16 THEN SubSeq(txt, 1, 16)
    ELSE txt \o [i \in 1..(16 - Len(txt)) |-> Space]

\* createMsg / strToBytes: header of five bytes, then the text.
createMsg(line, text) == <<cmdByte, 18, 39, line, 0>> \o text
strToBytes(line, text) == createMsg(line, prepareTxt(text))

\* asustorLCD.strToBytes: cut if longer than 16, then fill if shorter
lcdStrToBytes(line, text) ==
    LET cut == IF Len(text) > 16 THEN SubSeq(text, 1, 16) ELSE text
        filled == IF Len(cut) < 16 THEN cut \o Repeat(16 - Len(cut)) ELSE cut
    IN  <<cmdByte, 18, 39, line, 0>> \o filled

(***************************************************************************)
(* Threads.                                                                *)
(***************************************************************************)
Callers == {"c1", "c2"}
Listener == "ls"
Threads == Callers \cup {Listener}
Readers == 1..MaxReaders

VARIABLES
    open,           \* a.open
    con,            \* a.con: "nil", "open" or "closed"
    readC,          \* a.readC: frames waiting for responseEqual
    btnC,           \* a.btnC: frames waiting for Listen
    keepListening,  \* a.keepListening
    m,              \* a.m: "free" or the thread holding it
    retry,          \* a.retry
    wire,           \* frames sent by the device, not yet returned by Read
    rd,             \* reader goroutines: [pc, buf]
    pc,             \* position of each caller thread
    op,             \* the call each thread is in
    err,            \* the error a call is about to return
    res,            \* Listen's local res
    panicked,       \* a goroutine panicked: the process is gone
    attempts,       \* history: frames the call holding the lock has sent
    foreign,        \* history: that call took a frame that answers another call
    answered,       \* history: the device answered this Open's probe "okay"
    timedOut,       \* history: an ack wait of that call ended by its timeout
    cbRet,          \* history: what the callback last returned in this Listen
    \* readWithTimeout of the drivers that read the connection themselves
    \* (asustorLCD, qnap):
    waiter,         \* the sync.WaitGroup's counter
    respReceived,   \* its local respReceived
    timer,          \* the time.AfterFunc callback: "off", "armed", "fired", "done"
    reading,        \* its read goroutine: "off", "read", "got"
    got,            \* res[0:i], the bytes that goroutine read
    rerr,           \* its named result err
    step,           \* which wait of Open's handshake is running (1..3)
    lastBtn,        \* qnap.Listen's local lastBtn
    driver,         \* which implementation of the LCD interface the session is
    log,            \* history of one qnap.Listen call, where it is kept: the
                    \* frames it read and the callback calls it made
    clk,            \* time, where it is kept: the time since a.lastFlush
                    \* and, as history, the time since the last transmission
                    \* and the frame it sent
    arg,            \* the argument of the pure functions that are applied
    out,            \* what each of them returned for it
    bs              \* the reader at the level of bytes, where it is followed:
                    \* read()'s locals buf, startFound and res, and as history
                    \* the stream, the frames routed and what a receiver saw

session == <<open, con, readC, btnC, keepListening, m, retry>>
history == <<attempts, foreign, answered, timedOut, cbRet>>
untimed == <<waiter, respReceived, timer, reading, got, rerr, step, lastBtn, driver, arg, out, bs, log>>
direct == <<waiter, respReceived, timer, reading, got, rerr, step, lastBtn, driver, arg, out, bs, log, clk>>
vars == <<open, con, readC, btnC, keepListening, m, retry, wire, rd, pc, op,
          err, res, panicked, attempts, foreign, answered, timedOut,
          cbRet, waiter, respReceived, timer, reading, got, rerr, step, lastBtn,
          driver, arg, out, bs, log, clk>>

\* No history of Listen is kept.
NoLog == [on |-> FALSE, raw |-> <<>>, calls |-> <<>>]
\* The history of a Listen call that has just started.
NewLog == [on |-> TRUE, raw |-> <<>>, calls |-> <<>>]

Min(a, b) == IF a < b THEN a ELSE b

\* No pure function is applied.
Fns == {"makemsg", "strToBytes", "lcdStrToBytes", "qnapCnt"}
NoOut == [f \in Fns |-> [done |-> FALSE, v |-> <<>>]]
NoCall == arg = <<>> /\ out = NoOut

\* The bytes are not followed.
NoScan == [on |-> FALSE, pc |-> "read", all |-> <<>>, chunk |-> <<>>, buf |-> <<>>,
           startFound |-> FALSE, store |-> <<0, 0, 0, 0, 0>>, at |-> 0,
           routed |-> <<>>, took |-> [done |-> FALSE, enq |-> <<>>, seen |-> <<>>]]
\* read() as it starts: buf := bytes.Buffer{}; startFound := false
NewScan == [NoScan EXCEPT !.on = TRUE]

\* No time is kept.
NoClock == [on |-> FALSE, sinceFlush |-> DefaultDelayBetweenWrites,
            sinceTx |-> DefaultDelayBetweenWrites, close |-> FALSE,
            frame |-> <<>>]
\* The time of a new session: lastFlush is the zero time.Time, nothing has
\* been transmitted. Times are counted up to DefaultDelayBetweenWrites.
NewClock == [NoClock EXCEPT !.on = TRUE]

\* waitForFlushBetweenWrites / wait10MillisForSureBetweenWrites: sleep until
\* lastFlush + 10 ms, then lastFlush = time.Now()
Waited(c) ==
    IF ~c.on THEN c
    ELSE [c EXCEPT !.sinceTx = Min(DefaultDelayBetweenWrites,
                                   @ + (DefaultDelayBetweenWrites - c.sinceFlush)),
                   !.sinceFlush = 0]

\* con.Write transmits the bytes f; close records a transmission that came
\* less than 10 ms after the one before.
Sent(c, f) ==
    IF ~c.on THEN c
    ELSE [c EXCEPT !.close = @ \/ c.sinceTx < DefaultDelayBetweenWrites,
                   !.sinceTx = 0,
                   !.frame = f]
(***************************************************************************)
(* Frames in the model carry the bytes and, as history, whose frame they   *)
(* answer: "cur" (a frame sent by the call that holds the lock now), "old" *)
(* (a frame sent by a call that has returned) or "env" (nothing: a button  *)
(* press, or the empty slice forceClose sends).                            *)
(***************************************************************************)
Frame(b, tag) == [b |-> b, tag |-> tag]
Sentinel == Frame(<<>>, "env")
BtnFrame == Frame(makemsg(<<cmdByte, 1, 128, 1>>), "env")

Old(f) == IF f.tag = "cur" THEN [f EXCEPT !.tag = "old"] ELSE f
Retag(q) == IF q = <<>> THEN <<>> ELSE [i \in 1..Len(q) |-> Old(q[i])]

\* What the device may answer to a frame f it receives (f[3] is the command):
\* nothing (<<>>) or one reply frame.
DeviceReplies(f) ==
    IF f[3] = 39 THEN {<<>>, replyMsgSentCheck}
    ELSE IF f[3] = 17 THEN {<<>>, replyOkayCheck1}
    ELSE {<<>>}

Idle == [pc |-> "none", buf |-> Sentinel]

\* The frame f as a Listen holds it: the tag records, as history, that it was
\* taken while the session was not open.
Dequeued(f) == IF open THEN f ELSE Frame(f.b, "closed")

\* The session after its constructor (which calls Open) has returned nil;
\* slots are the goroutines that may run read() at the same time.
ConstructedWith(slots) ==
    /\ open = TRUE
    /\ con = "open"
    /\ readC = <<>>
    /\ btnC = <<>>
    /\ keepListening = FALSE
    /\ m = "free"
    /\ retry = 0
    /\ wire = <<>>
    /\ rd = [r \in slots |-> IF r = 1 /\ driver # "qnap"
                             THEN [pc |-> "loop", buf |-> Sentinel] ELSE Idle]
    /\ pc = [t \in Threads |-> "idle"]
    /\ op = [t \in Threads |-> "none"]
    /\ err = [t \in Threads |-> "nil"]
    /\ res = Sentinel
    /\ panicked = FALSE
    /\ attempts = 0
    /\ foreign = FALSE
    /\ answered = FALSE
    /\ timedOut = FALSE
    /\ cbRet = "none"
    /\ waiter = 0
    /\ respReceived = FALSE
    /\ timer = "off"
    /\ reading = "off"
    /\ got = <<>>
    /\ rerr = "nil"
    /\ step = 0
    /\ lastBtn = 0

Constructed == ConstructedWith(Readers)

\* NewAsustorLCD of the mutex variant
Init == driver = "asustor" /\ Constructed /\ log = NoLog /\ clk = NoClock /\ NoCall /\ bs = NoScan

(***************************************************************************)
(* Shared steps.                                                           *)
(***************************************************************************)
Goto(t, p) == pc' = [pc EXCEPT ![t] = p]
Fail(t, e) == pc' = [pc EXCEPT ![t] = "ret"] /\ err' = [err EXCEPT ![t] = e]

\* A caller starts one of the calls in ops: it is now waiting for a.m.
Call(t, ops) ==
    /\ driver = "asustor"
    /\ ~panicked
    /\ pc[t] = "idle"
    /\ \E o \in ops :
          /\ op' = [op EXCEPT ![t] = o]
          /\ Goto(t, CASE o = "Open" -> "op_lock"
                       [] o = "Close" -> "cl_lock"
                       [] o = "Write" -> "wr_lock"
                       [] OTHER -> "en_lock")
    /\ UNCHANGED <<session, wire, rd, err, res, panicked, history>>
    /\ UNCHANGED direct

\* Mutant of Lock: the lock is taken without waiting for it.
LockNoWait(t) == m' = t

\* a.m.Lock()
Lock(t) == m = "free" /\ m' = t

\* con.Close() fails the Read that qnap.Listen is blocked in.
ListenAfterClose ==
    IF driver = "qnap" /\ pc[Listener] = "ql_read"
    THEN [pc EXCEPT ![Listener] = "ql_err"]
    ELSE pc

\* con.Close() fails every Read that is blocked on the connection.
ReadersAfterClose ==
    [r \in DOMAIN rd |-> IF rd[r].pc = "read" THEN [rd[r] EXCEPT !.pc = "readerr"] ELSE rd[r]]

\* flush: makemsg, the spacing wait, con.Write. The write fails (a transport
\* error, or fewer bytes written than len(data)) or sends the frame, which
\* the device may answer.
flush(t, data, okpc, errpc) ==
    \/ /\ Goto(t, errpc)
       /\ \E e \in {"ErrWrite", "ErrSize"} :
             /\ (con # "open" => e = "ErrWrite")
             /\ err' = [err EXCEPT ![t] = e]
       /\ clk' = Waited(clk)
       /\ UNCHANGED <<wire, attempts, answered>>
    \/ /\ con = "open"
       /\ Goto(t, okpc)
       /\ attempts' = attempts + 1
       /\ clk' = Sent(Waited(clk), makemsg(data))
       /\ \E rep \in DeviceReplies(makemsg(data)) :
             IF rep # <<>> /\ Len(wire) < MaxWire
             THEN /\ wire' = Append(wire, Frame(rep, "cur"))
                  /\ answered' = (answered \/ (data = cmdDisplayStatus /\
                        rep \in {replyOkayCheck1, replyOkayCheck2, replyOkayCheck3}))
             ELSE UNCHANGED <<wire, answered>>
       /\ UNCHANGED err

\* responseEqual: the next frame of readC, or nothing within 40 ms. ok is
\* what it returns.
responseEqual(checks, ok) ==
    \/ /\ readC # <<>>
       /\ readC' = Tail(readC)
       /\ foreign' = (foreign \/ Head(readC).tag # "cur")
       /\ ok = (open /\ Head(readC).b \in checks)
       /\ UNCHANGED timedOut
    \/ /\ readC = <<>>
       /\ ok = FALSE
       /\ timedOut' = TRUE
       /\ UNCHANGED <<readC, foreign>>

(***************************************************************************)
(* Open and establish.                                                     *)
(***************************************************************************)
FreeReader == CHOOSE r \in DOMAIN rd : rd[r].pc = "none" /\ \A q \in DOMAIN rd : rd[q].pc = "none" => r <= q

Open(t) ==
    /\ driver = "asustor"
    /\ ~panicked
    /\ pc[t] = "op_lock"
    /\ Lock(t)
    /\ IF open
       THEN /\ Fail(t, "nil")
            /\ UNCHANGED <<open, con, wire, rd>>
       ELSE \/ \* serial.Open fails
               /\ con' = "nil"
               /\ rd' = IF con = "open" THEN ReadersAfterClose ELSE rd
               /\ wire' = <<>>
               /\ Fail(t, "ErrOpen")
               /\ UNCHANGED open
            \/ \* serial.Open succeeds; a.open = true; go a.read()
               /\ \E r \in DOMAIN rd : rd[r].pc = "none"
               /\ con' = "open"
               /\ wire' = <<>>
               /\ open' = TRUE
               /\ rd' = [(IF con = "open" THEN ReadersAfterClose ELSE rd)
                            EXCEPT ![FreeReader] = [pc |-> "loop", buf |-> Sentinel]]
               /\ Goto(t, "es_flush")
               /\ UNCHANGED err
    /\ UNCHANGED <<readC, btnC, keepListening, retry, op, res, panicked, history>>
    /\ UNCHANGED direct

establishFlush(t) ==
    /\ driver = "asustor"
    /\ ~panicked
    /\ pc[t] = "es_flush"
    /\ flush(t, cmdDisplayStatus, "es_resp", "es_close")
    /\ UNCHANGED <<session, rd, op, res, panicked, foreign, timedOut, cbRet>>
    /\ UNCHANGED untimed

establishResponse(t) ==
    /\ driver = "asustor"
    /\ ~panicked
    /\ pc[t] = "es_resp"
    /\ \E ok \in BOOLEAN :
          /\ responseEqual({replyOkayCheck1, replyOkayCheck2, replyOkayCheck3}, ok)
          /\ IF ok THEN Fail(t, "nil") ELSE Goto(t, "es_close") /\ err' = [err EXCEPT ![t] = "ErrDisplayNotWorking"]
    /\ UNCHANGED <<open, con, btnC, keepListening, m, retry, wire, rd, op, res,
                   panicked, attempts, answered, cbRet>>
    /\ UNCHANGED direct

\* _ = a.con.Close() before forceClose
establishClose(t) ==
    /\ driver = "asustor"
    /\ ~panicked
    /\ pc[t] = "es_close"
    /\ con' = "closed"
    /\ wire' = <<>>
    /\ rd' = ReadersAfterClose
    /\ Goto(t, "fc_flag")
    /\ UNCHANGED <<open, readC, btnC, keepListening, m, retry, op, err, res,
                   panicked, history>>
    /\ UNCHANGED direct

(***************************************************************************)
(* forceClose and Close.                                                   *)
(***************************************************************************)
forceCloseFlag(t) ==
    /\ driver = "asustor"
    /\ ~panicked
    /\ pc[t] = "fc_flag"
    /\ open' = FALSE
    /\ Goto(t, "fc_readC")
    /\ UNCHANGED <<con, readC, btnC, keepListening, m, retry, wire, rd, op, err,
                   res, panicked, history>>
    /\ UNCHANGED direct

forceCloseReadC(t) ==
    /\ driver = "asustor"
    /\ ~panicked
    /\ pc[t] = "fc_readC"
    /\ Len(readC) < QueueCap
    /\ readC' = Append(readC, Sentinel)
    /\ Goto(t, "fc_btnC")
    /\ UNCHANGED <<open, con, btnC, keepListening, m, retry, wire, rd, op, err,
                   res, panicked, history>>
    /\ UNCHANGED direct

forceCloseBtnC(t) ==
    /\ driver = "asustor"
    /\ ~panicked
    /\ pc[t] = "fc_btnC"
    /\ Len(btnC) < QueueCap
    /\ btnC' = Append(btnC, Sentinel)
    /\ Goto(t, "fc_con")
    /\ UNCHANGED <<open, con, readC, keepListening, m, retry, wire, rd, op, err,
                   res, panicked, history>>
    /\ UNCHANGED direct

forceCloseCon(t) ==
    /\ driver = "asustor"
    /\ ~panicked
    /\ pc[t] = "fc_con"
    /\ con' = "closed"
    /\ wire' = <<>>
    /\ rd' = ReadersAfterClose
    /\ Goto(t, "ret")
    /\ UNCHANGED <<open, readC, btnC, keepListening, m, retry, op, err, res,
                   panicked, history>>
    /\ UNCHANGED direct

\* Mutant of Close: forceClose runs on a closed session as well.
CloseAlways(t) ==
    /\ driver = "asustor"
    /\ ~panicked
    /\ pc[t] = "cl_lock"
    /\ Lock(t)
    /\ Goto(t, "fc_flag")
    /\ UNCHANGED <<open, con, readC, btnC, keepListening, retry, wire, rd, op,
                   err, res, panicked, history>>
    /\ UNCHANGED direct

\* Close: a.m.Lock(); if !a.open { return nil }; forceClose
Close(t) ==
    /\ driver = "asustor"
    /\ ~panicked
    /\ pc[t] = "cl_lock"
    /\ Lock(t)
    /\ IF open THEN Goto(t, "fc_flag") /\ UNCHANGED err ELSE Fail(t, "nil")
    /\ UNCHANGED <<open, con, readC, btnC, keepListening, retry, wire, rd, op,
                   res, panicked, history>>
    /\ UNCHANGED direct

(***************************************************************************)
(* Write and Enable.                                                       *)
(***************************************************************************)
Write(t) ==
    /\ driver = "asustor"
    /\ ~panicked
    /\ pc[t] = "wr_lock"
    /\ Lock(t)
    /\ Goto(t, "wr_check")
    /\ UNCHANGED <<open, con, readC, btnC, keepListening, retry, wire, rd, op,
                   err, res, panicked, history>>
    /\ UNCHANGED direct

\* Mutant of writeCheck: write() without its open check.
writeCheckNoTest(t) == pc[t] = "wr_check" /\ Goto(t, "wr_flush") /\ UNCHANGED err

\* write(msg): the open check, then flush
writeCheck(t) ==
    /\ pc[t] = "wr_check"
    /\ IF ~open THEN Fail(t, "ErrClosed") ELSE Goto(t, "wr_flush") /\ UNCHANGED err

writeEnter(t) ==
    /\ driver = "asustor"
    /\ ~panicked
    /\ writeCheck(t)
    /\ UNCHANGED <<session, wire, rd, op, res, panicked, history>>
    /\ UNCHANGED direct

\* Mutant of writeFlush: a failed flush is followed by the ack wait.
writeFlushAcks(t) ==
    /\ driver = "asustor"
    /\ ~panicked
    /\ pc[t] = "wr_flush"
    /\ \E line \in {0, 1} : flush(t, strToBytes(line, Hello), "wr_resp", "wr_resp")
    /\ UNCHANGED <<session, rd, op, res, panicked, foreign, timedOut, cbRet>>
    /\ UNCHANGED untimed

\* write(msg): err := a.flush(msg); if err != nil { return err }
writeFlush(t) ==
    /\ driver = "asustor"
    /\ ~panicked
    /\ pc[t] = "wr_flush"
    /\ \E line \in {0, 1} : flush(t, strToBytes(line, Hello), "wr_resp", "ret")
    /\ UNCHANGED <<session, rd, op, res, panicked, foreign, timedOut, cbRet>>
    /\ UNCHANGED untimed

\* the retry decision of write(): give up, or count and send again
writeRetry(t) ==
    IF retry > RetryLimit
    THEN Fail(t, "ErrDisplayNotWorking") /\ UNCHANGED retry
    ELSE /\ retry' = (retry + 1) % 256
         /\ Goto(t, "wr_check")
         /\ UNCHANGED err

writeResponse(t) ==
    /\ driver = "asustor"
    /\ ~panicked
    /\ pc[t] = "wr_resp"
    /\ \E ok \in BOOLEAN :
          /\ responseEqual({replyMsgSentCheck}, ok)
          /\ IF ok
             THEN /\ retry' = 0
                  /\ Fail(t, "nil")
             ELSE writeRetry(t)
    /\ UNCHANGED <<open, con, btnC, keepListening, m, wire, rd, op, res,
                   panicked, attempts, answered, cbRet>>
    /\ UNCHANGED direct

enableCheck(t) ==
    /\ pc[t] = "en_lock"
    /\ IF ~open THEN Fail(t, "ErrClosed") ELSE Goto(t, "en_flush") /\ UNCHANGED err

Enable(t) ==
    /\ driver = "asustor"
    /\ ~panicked
    /\ Lock(t)
    /\ enableCheck(t)
    /\ UNCHANGED <<open, con, readC, btnC, keepListening, retry, wire, rd, op,
                   res, panicked, history>>
    /\ UNCHANGED direct

enableFlush(t) ==
    /\ driver = "asustor"
    /\ ~panicked
    /\ pc[t] = "en_flush"
    /\ \E yes \in BOOLEAN :
          flush(t, IF yes THEN cmdDisplayOn ELSE cmdDisplayOff, "ret", "ret")
    /\ UNCHANGED <<session, rd, op, res, panicked, foreign, timedOut, cbRet>>
    /\ UNCHANGED untimed

\* defer a.m.Unlock() and the return to the caller. Replies still under way
\* now answer a call that has returned.
Return(t) ==
    /\ driver = "asustor"
    /\ ~panicked
    /\ pc[t] = "ret"
    /\ m' = "free"
    /\ Goto(t, "idle")
    /\ op' = [op EXCEPT ![t] = "none"]
    /\ err' = [err EXCEPT ![t] = "nil"]
    /\ readC' = Retag(readC)
    /\ wire' = Retag(wire)
    /\ rd' = [r \in DOMAIN rd |-> [rd[r] EXCEPT !.buf = Old(rd[r].buf)]]
    /\ attempts' = 0
    /\ foreign' = FALSE
    /\ answered' = FALSE
    /\ timedOut' = FALSE
    /\ UNCHANGED <<open, con, btnC, keepListening, retry, res, panicked, cbRet>>
    /\ UNCHANGED direct

(***************************************************************************)
(* Listen: no lock is taken.                                               *)
(***************************************************************************)
ListenReturn(t) == Goto(t, "idle") /\ op' = [op EXCEPT ![t] = "none"]

\* Listen is called
CallListen(t) ==
    /\ driver = "asustor"
    /\ ~panicked
    /\ pc[t] = "idle"
    /\ op' = [op EXCEPT ![t] = "Listen"]
    /\ Goto(t, "ls_check")
    /\ cbRet' = "none"
    /\ UNCHANGED <<session, wire, rd, err, res, panicked, attempts, foreign,
                   answered, timedOut>>
    /\ UNCHANGED direct

\* if !a.open { return }; a.keepListening = true
listenCheck(t) ==
    IF ~open
    THEN ListenReturn(t) /\ UNCHANGED keepListening
    ELSE Goto(t, "ls_loop") /\ keepListening' = TRUE /\ UNCHANGED op

Listen(t) ==
    /\ driver = "asustor"
    /\ ~panicked
    /\ pc[t] = "ls_check"
    /\ listenCheck(t)
    /\ UNCHANGED <<open, con, readC, btnC, m, retry, wire, rd, err, res,
                   panicked, history>>
    /\ UNCHANGED direct

\* for a.open
listenLoop(t) ==
    /\ driver = "asustor"
    /\ ~panicked
    /\ pc[t] = "ls_loop"
    /\ IF open THEN Goto(t, "ls_wait") /\ UNCHANGED op ELSE ListenReturn(t)
    /\ UNCHANGED <<session, wire, rd, err, res, panicked, history>>
    /\ UNCHANGED direct

\* res := <-a.btnC
listenReceive(t) ==
    /\ driver = "asustor"
    /\ ~panicked
    /\ pc[t] = "ls_wait"
    /\ btnC # <<>>
    /\ res' = Dequeued(Head(btnC))
    /\ btnC' = Tail(btnC)
    /\ Goto(t, "ls_got")
    /\ cbRet' = "none"
    /\ UNCHANGED <<open, con, readC, keepListening, m, retry, wire, rd, op, err,
                   panicked, attempts, foreign, answered, timedOut>>
    /\ UNCHANGED direct

\* Mutant of listenAnswer: the callback's answer is ignored.
listenAnswerIgnored(t, goOn) == Goto(t, "ls_loop") /\ UNCHANGED <<op, keepListening>>

\* what Listen does with the callback's answer
listenAnswer(t, goOn) ==
    IF goOn
    THEN Goto(t, "ls_loop") /\ UNCHANGED <<op, keepListening>>
    ELSE ListenReturn(t) /\ keepListening' = FALSE

\* if !a.open { return }; if a.keepListening { if !l(int(res[3]), true) ... }
listenDispatch(t) ==
    /\ driver = "asustor"
    /\ ~panicked
    /\ pc[t] = "ls_got"
    /\ IF ~open
       THEN ListenReturn(t) /\ UNCHANGED <<keepListening, panicked, cbRet>>
       ELSE IF ~keepListening
       THEN Goto(t, "ls_loop") /\ UNCHANGED <<op, keepListening, panicked, cbRet>>
       ELSE IF Len(res.b) < 4
       THEN \* res[3]: index out of range
            panicked' = TRUE /\ UNCHANGED <<pc, op, keepListening, cbRet>>
       ELSE \E goOn \in BOOLEAN :
               /\ cbRet' = IF goOn THEN "true" ELSE "false"
               /\ listenAnswer(t, goOn)
               /\ UNCHANGED panicked
    /\ res' = Sentinel
    /\ UNCHANGED <<open, con, readC, btnC, m, retry, wire, rd, err, attempts,
                   foreign, answered, timedOut>>
    /\ UNCHANGED direct

(***************************************************************************)
(* The reader goroutines and the device.                                   *)
(***************************************************************************)
\* for a.open { i, er := a.con.Read(res) ...: the loop test and the call
readLoop(r) ==
    /\ driver = "asustor"
    /\ ~panicked
    /\ rd[r].pc = "loop"
    /\ rd' = [rd EXCEPT ![r] = IF open /\ con = "open"
                                THEN [pc |-> "read", buf |-> Sentinel]
                                ELSE Idle]
    /\ UNCHANGED <<session, wire, pc, op, err, res, panicked, history>>
    /\ UNCHANGED direct

\* pass: a button frame goes to btnC, every other frame to readC
IsBtn(f) == HasPrefix(f.b, cmdBtn)
CanPass(f) == IF IsBtn(f) THEN Len(btnC) < QueueCap ELSE Len(readC) < QueueCap
Passed(f) ==
    IF IsBtn(f)
    THEN btnC' = Append(btnC, f) /\ UNCHANGED readC
    ELSE readC' = Append(readC, f) /\ UNCHANGED btnC

\* Read returns a frame: if er != nil || !a.open { return }; then pass(),
\* which sends at once when the channel has room and blocks otherwise
readFrame(r) ==
    /\ driver = "asustor"
    /\ ~panicked
    /\ rd[r].pc = "read"
    /\ wire # <<>>
    /\ wire' = Tail(wire)
    /\ IF ~open
       THEN rd' = [rd EXCEPT ![r] = Idle] /\ UNCHANGED <<readC, btnC>>
       ELSE IF CanPass(Head(wire))
       THEN Passed(Head(wire)) /\ rd' = [rd EXCEPT ![r] = [pc |-> "loop", buf |-> Sentinel]]
       ELSE rd' = [rd EXCEPT ![r] = [pc |-> "pass", buf |-> Head(wire)]] /\ UNCHANGED <<readC, btnC>>
    /\ UNCHANGED <<open, con, keepListening, m, retry, pc, op, err, res, panicked, history>>
    /\ UNCHANGED direct

\* Read returns an error: the connection was closed
readError(r) ==
    /\ driver = "asustor"
    /\ ~panicked
    /\ rd[r].pc = "readerr"
    /\ rd' = [rd EXCEPT ![r] = Idle]
    /\ UNCHANGED <<session, wire, pc, op, err, res, panicked, history>>
    /\ UNCHANGED direct

\* pass, blocked on a full channel, sends when there is room
pass(r) ==
    /\ driver = "asustor"
    /\ ~panicked
    /\ rd[r].pc = "pass"
    /\ CanPass(rd[r].buf)
    /\ Passed(rd[r].buf)
    /\ rd' = [rd EXCEPT ![r] = [pc |-> "loop", buf |-> Sentinel]]
    /\ UNCHANGED <<open, con, keepListening, m, retry, wire, pc, op, err, res,
                   panicked, history>>
    /\ UNCHANGED direct

\* somebody presses a button
DeviceButton ==
    /\ driver = "asustor"
    /\ ~panicked
    /\ con = "open"
    /\ Len(wire) < MaxWire
    /\ wire' = Append(wire, BtnFrame)
    /\ UNCHANGED <<session, rd, pc, op, err, res, panicked, history>>
    /\ UNCHANGED direct

\* the frame f with a trailing byte that is not its checksum
Corrupt(f) == [f EXCEPT ![Len(f)] = (@ + 1) % 256]

\* the line delivers a frame whose trailing byte is wrong: a button frame or
\* an okay reply
DeviceCorrupt ==
    /\ driver = "asustor"
    /\ ~panicked
    /\ con = "open"
    /\ Len(wire) < MaxWire
    /\ \E f \in {BtnFrame.b, replyOkayCheck1} :
          wire' = Append(wire, Frame(Corrupt(f), "env"))
    /\ UNCHANGED <<session, rd, pc, op, err, res, panicked, history>>
    /\ UNCHANGED direct

AllCalls == {"Open", "Close", "Write", "Enable"}

OpenCloseStep(t) ==
    \/ Open(t) \/ establishFlush(t) \/ establishResponse(t) \/ establishClose(t)
    \/ forceCloseFlag(t) \/ forceCloseReadC(t) \/ forceCloseBtnC(t) \/ forceCloseCon(t)
    \/ Close(t)

WriteStep(t) == Write(t) \/ writeEnter(t) \/ writeFlush(t) \/ writeResponse(t)

EnableStep(t) == Enable(t) \/ enableFlush(t)

CallerStep(t) == OpenCloseStep(t) \/ WriteStep(t) \/ EnableStep(t) \/ Return(t)

ListenerStep ==
    \/ CallListen(Listener) \/ Listen(Listener) \/ listenLoop(Listener)
    \/ listenReceive(Listener) \/ listenDispatch(Listener)

ReaderStep(r) == readLoop(r) \/ readFrame(r) \/ readError(r) \/ pass(r)

Next ==
    \/ Call("c1", AllCalls) \/ CallerStep("c1")
    \/ ListenerStep
    \/ \E r \in Readers : ReaderStep(r)

Spec == Init /\ [][Next]_vars

\* One caller of Open, Close and Enable, one Listen loop, and buttons.
NextListen ==
    \/ Call("c1", {"Open", "Close", "Enable"})
    \/ OpenCloseStep("c1") \/ EnableStep("c1") \/ Return("c1")
    \/ ListenerStep
    \/ \E r \in Readers : ReaderStep(r)
    \/ DeviceButton

SpecListen == Init /\ [][NextListen]_vars

\* One caller of Open and Close, one Listen loop, and a line that corrupts
\* frames.
NextNoisy ==
    \/ Call("c1", {"Open", "Close"})
    \/ OpenCloseStep("c1") \/ Return("c1")
    \/ ListenerStep
    \/ \E r \in Readers : ReaderStep(r)
    \/ DeviceCorrupt

SpecNoisy == Init /\ [][NextNoisy]_vars

\* One caller of Open and Close, one Listen loop, buttons, and room for the
\* reader of an earlier Open next to the reader of the latest.
NextReaders ==
    \/ Call("c1", {"Open", "Close"})
    \/ OpenCloseStep("c1") \/ Return("c1")
    \/ ListenerStep
    \/ \E r \in DOMAIN rd : ReaderStep(r)
    \/ DeviceButton

InitReaders ==
    /\ driver = "asustor" /\ ConstructedWith(1..(MaxReaders + 1))
    /\ log = NoLog /\ clk = NoClock /\ NoCall /\ bs = NoScan

SpecReaders == InitReaders /\ [][NextReaders]_vars

NextTwo ==
    \/ \E t \in Callers : Call(t, AllCalls) \/ CallerStep(t)
    \/ \E r \in Readers : ReaderStep(r)

SpecTwo == Init /\ [][NextTwo]_vars

(***************************************************************************)
(* Part 2: readWithTimeout (src/asustor.go 178-202, src/generic.go         *)
(* 410-434, the same code in both drivers). The caller adds 2 to a         *)
(* WaitGroup and waits for it; a goroutine reads the connection and, when  *)
(* the read succeeds, sets respReceived and calls Done twice, otherwise    *)
(* Done once; the time.AfterFunc callback returns if respReceived is set,  *)
(* and otherwise calls forceClose, sets err and calls Done once.           *)
(* respReceived and err are shared without synchronization, so the steps   *)
(* of the two are interleaved freely. A WaitGroup whose counter goes       *)
(* negative panics, which ends the process.                                *)
(***************************************************************************)
\* waiter.Add(2); time.AfterFunc(...); go func() {...}()
startRead ==
    /\ timer = "off"
    /\ reading = "off"
    /\ waiter' = 2
    /\ respReceived' = FALSE
    /\ timer' = "armed"
    /\ reading' = "read"
    /\ got' = <<>>
    /\ rerr' = "nil"

\* i, err = con.Read(res) returns the next frame of the line
readReturn ==
    /\ ~panicked
    /\ reading = "read"
    /\ con = "open"
    /\ wire # <<>>
    /\ got' = Head(wire).b
    /\ wire' = Tail(wire)
    /\ rerr' = "nil"
    /\ reading' = "got"
    /\ UNCHANGED <<session, rd, pc, op, err, res, panicked, history, waiter,
                   respReceived, timer, step, lastBtn, driver, arg, out, bs, log, clk>>

\* err == nil: respReceived = true; waiter.Done(); waiter.Done(). A timer
\* that fires from now on finds respReceived set and returns.
readDone ==
    /\ ~panicked
    /\ reading = "got"
    /\ respReceived' = TRUE
    /\ waiter' = waiter - 2
    /\ panicked' = (waiter < 2)
    /\ timer' = IF timer = "armed" THEN "off" ELSE timer
    /\ reading' = "off"
    /\ UNCHANGED <<session, wire, rd, pc, op, err, res, history, got, rerr, step,
                   lastBtn, driver, arg, out, bs, log, clk>>

\* con.Read fails because the connection is closed: waiter.Done()
readFails ==
    /\ ~panicked
    /\ reading = "read"
    /\ con # "open"
    /\ rerr' = "ErrRead"
    /\ waiter' = waiter - 1
    /\ panicked' = (waiter < 1)
    /\ reading' = "off"
    /\ UNCHANGED <<session, wire, rd, pc, op, err, res, history, respReceived,
                   timer, got, step, lastBtn, driver, arg, out, bs, log, clk>>

\* ReadTimeout has passed: the callback runs and finds respReceived false
timerFire ==
    /\ ~panicked
    /\ timer = "armed"
    /\ ~respReceived
    /\ timer' = "fired"
    /\ UNCHANGED <<session, wire, rd, pc, op, err, res, panicked, history, waiter,
                   respReceived, reading, got, rerr, step, lastBtn, driver, arg, out, bs, log, clk>>

\* _ = forceClose(): open = false, con.Close(); err = ErrDisplayNotWorking
timerClose ==
    /\ ~panicked
    /\ timer = "fired"
    /\ open' = FALSE
    /\ con' = IF con = "nil" THEN "nil" ELSE "closed"
    /\ wire' = <<>>
    /\ rd' = ReadersAfterClose
    /\ rerr' = "ErrDisplayNotWorking"
    /\ timedOut' = TRUE
    /\ timer' = "done"
    /\ pc' = ListenAfterClose
    /\ UNCHANGED <<readC, btnC, keepListening, m, retry, op, err, res,
                   panicked, attempts, foreign, answered, cbRet, waiter,
                   respReceived, reading, got, step, lastBtn, driver, arg, out, bs, log, clk>>

\* the callback's waiter.Done()
timerDone ==
    /\ ~panicked
    /\ timer = "done"
    /\ waiter' = waiter - 1
    /\ panicked' = (waiter < 1)
    /\ timer' = "off"
    /\ UNCHANGED <<session, wire, rd, pc, op, err, res, history, respReceived,
                   reading, got, rerr, step, lastBtn, driver, arg, out, bs, log, clk>>

ReadWithTimeoutStep ==
    readReturn \/ readDone \/ readFails \/ timerFire \/ timerClose \/ timerDone

(***************************************************************************)
(* Part 3: asustorLCD (src/asustor.go), the driver without a lock whose    *)
(* Open does the graduated handshake through readWithTimeout.              *)
(***************************************************************************)
cmdRdy == <<replyByte, 1>>
cmdMsgSentCheck == cmdRdy \o <<39, 0, 25>>

\* What the device may answer to a frame f sent by this driver: nothing, or
\* one frame. A probe may be answered by a ready frame, or by the frame of a
\* button that is pressed just then.
lcdDeviceReplies(f) ==
    IF f[3] \in {17, 18} THEN {<<>>, replyOkayCheck1, BtnFrame.b}
    ELSE IF f[3] = 39 THEN {<<>>, cmdMsgSentCheck}
    ELSE {<<>>}

lcdCall(t, ops) ==
    /\ ~panicked
    /\ driver = "asustorLCD"
    /\ pc[t] = "idle"
    /\ \E o \in ops :
          /\ op' = [op EXCEPT ![t] = o]
          /\ Goto(t, CASE o = "Open" -> "lo_open"
                       [] o = "Close" -> "lc_close"
                       [] o = "Write" -> "lw_check"
                       [] OTHER -> "le_check")
    /\ UNCHANGED <<session, wire, rd, err, res, panicked, history, direct>>

\* flush: con.Write fails. Writing to a connection that was closed fails
\* always.
lcdFlushFails(t) ==
    \E e \in {"ErrWrite", "ErrSize", "ErrFileClosed"} :
        /\ (e = "ErrFileClosed") = (con # "open")
        /\ Fail(t, e)
        /\ clk' = Waited(clk)

\* flush: con.Write sends makemsg(data), which the device may answer
lcdFlushSends(data) ==
    /\ con = "open"
    /\ attempts' = attempts + 1
    /\ clk' = Sent(Waited(clk), makemsg(data))
    /\ \E rep \in lcdDeviceReplies(makemsg(data)) :
          IF rep # <<>> /\ Len(wire) < MaxWire
          THEN /\ wire' = Append(wire, Frame(rep, "cur"))
               /\ answered' = (answered \/ HasPrefix(rep, cmdRdy))
          ELSE UNCHANGED <<wire, answered>>

\* Open up to serial.Open
lcdOpen(t) ==
    /\ ~panicked
    /\ driver = "asustorLCD"
    /\ pc[t] = "lo_open"
    /\ IF open
       THEN Fail(t, "nil") /\ UNCHANGED <<con, wire, rd, step>>
       ELSE /\ \/ \* serial.Open fails
                  /\ con' = "nil"
                  /\ Fail(t, "ErrOpen")
                  /\ UNCHANGED step
               \/ \* serial.Open succeeds
                  /\ con' = "open"
                  /\ step' = 1
                  /\ Goto(t, "lo_flush")
                  /\ UNCHANGED err
            /\ wire' = <<>>
            /\ rd' = IF con = "open" THEN ReadersAfterClose ELSE rd
    /\ UNCHANGED <<open, readC, btnC, keepListening, m, retry, op, res, panicked,
                   history, waiter, respReceived, timer, reading, got, rerr,
                   lastBtn, driver, arg, out, bs, log, clk>>

\* The frame of the handshake's steps: status, clear, status.
Probe(k) == IF k = 2 THEN cmdClearDisplay ELSE cmdDisplayStatus

\* err = a.flush(...); then isReady() starts readWithTimeout
lcdOpenFlush(t) ==
    /\ ~panicked
    /\ driver = "asustorLCD"
    /\ pc[t] = "lo_flush"
    /\ \/ /\ lcdFlushFails(t)
          /\ con' = "closed"
          /\ wire' = <<>>
          /\ UNCHANGED <<attempts, answered, waiter, respReceived, timer, reading,
                         got, rerr>>
       \/ /\ lcdFlushSends(Probe(step))
          /\ startRead
          /\ Goto(t, "lo_wait")
          /\ UNCHANGED <<con, err>>
    /\ UNCHANGED <<open, readC, btnC, keepListening, m, retry, rd, op, res,
                   panicked, foreign, timedOut, cbRet, step, lastBtn, driver, arg, out, bs, log>>

\* isReady's verdict on what readWithTimeout returned
isReady == rerr = "nil" /\ Len(got) = 5 /\ HasPrefix(got, cmdRdy)

\* waiter.Wait() returns; isReady; the next step of the handshake
lcdOpenReady(t) ==
    /\ ~panicked
    /\ driver = "asustorLCD"
    /\ pc[t] = "lo_wait"
    /\ waiter = 0
    /\ IF isReady
       THEN Goto(t, "lo_mark") /\ UNCHANGED <<con, wire, err, step>>
       ELSE IF step < 3
       THEN /\ step' = step + 1
            /\ Goto(t, "lo_flush")
            /\ UNCHANGED <<con, wire, err>>
       ELSE /\ con' = "closed"
            /\ wire' = <<>>
            /\ Fail(t, "ErrDisplayNotWorking")
            /\ UNCHANGED step
    /\ UNCHANGED <<open, readC, btnC, keepListening, m, retry, rd, op, res,
                   panicked, history, waiter, respReceived, timer, reading, got,
                   rerr, lastBtn, driver, arg, out, bs, log, clk>>

\* a.open = true; go a.read(); return nil
lcdOpenMark(t) ==
    /\ ~panicked
    /\ driver = "asustorLCD"
    /\ pc[t] = "lo_mark"
    /\ \E r \in DOMAIN rd : rd[r].pc = "none"
    /\ open' = TRUE
    /\ rd' = [rd EXCEPT ![FreeReader] = [pc |-> "loop", buf |-> Sentinel]]
    /\ Fail(t, "nil")
    /\ UNCHANGED <<con, readC, btnC, keepListening, m, retry, wire, op, res,
                   panicked, history, direct>>

\* Close: if !a.open { return nil }; forceClose: a.open = false
lcdClose(t) ==
    /\ ~panicked
    /\ driver = "asustorLCD"
    /\ pc[t] = "lc_close"
    /\ IF open
       THEN open' = FALSE /\ Goto(t, "lc_con") /\ UNCHANGED err
       ELSE Fail(t, "nil") /\ UNCHANGED open
    /\ UNCHANGED <<con, readC, btnC, keepListening, m, retry, wire, rd, op, res,
                   panicked, history, direct>>

\* forceClose: return a.con.Close()
lcdForceCloseCon(t) ==
    /\ ~panicked
    /\ driver = "asustorLCD"
    /\ pc[t] = "lc_con"
    /\ con' = IF con = "nil" THEN "nil" ELSE "closed"
    /\ wire' = <<>>
    /\ rd' = ReadersAfterClose
    /\ Fail(t, "nil")
    /\ UNCHANGED <<open, readC, btnC, keepListening, m, retry, op, res, panicked,
                   history, direct>>

\* Enable: if !a.open { return ErrClosed }
lcdEnable(t) ==
    /\ ~panicked
    /\ driver = "asustorLCD"
    /\ pc[t] = "le_check"
    /\ IF ~open THEN Fail(t, "ErrClosed") ELSE Goto(t, "le_flush") /\ UNCHANGED err
    /\ UNCHANGED <<session, wire, rd, op, res, panicked, history, direct>>

\* Enable: return a.flush(...)
lcdEnableFlush(t) ==
    /\ ~panicked
    /\ driver = "asustorLCD"
    /\ pc[t] = "le_flush"
    /\ \/ lcdFlushFails(t) /\ UNCHANGED <<wire, attempts, answered>>
       \/ /\ \E yes \in BOOLEAN :
                lcdFlushSends(IF yes THEN cmdDisplayOn ELSE cmdDisplayOff)
          /\ Fail(t, "nil")
    /\ UNCHANGED <<session, rd, op, res, panicked, foreign, timedOut, cbRet, untimed>>

\* Write: if !a.open { return ErrClosed }
lcdWrite(t) ==
    /\ ~panicked
    /\ driver = "asustorLCD"
    /\ pc[t] = "lw_check"
    /\ IF ~open THEN Fail(t, "ErrClosed") ELSE Goto(t, "lw_flush") /\ UNCHANGED err
    /\ UNCHANGED <<session, wire, rd, op, res, panicked, history, direct>>

\* Write: err := a.flush(a.strToBytes(line, text))
lcdWriteFlush(t) ==
    /\ ~panicked
    /\ driver = "asustorLCD"
    /\ pc[t] = "lw_flush"
    /\ \/ lcdFlushFails(t) /\ UNCHANGED <<wire, attempts, answered>>
       \/ /\ \E line \in {0, 1} : lcdFlushSends(lcdStrToBytes(line, Hello))
          /\ Goto(t, "lw_sent")
          /\ UNCHANGED err
    /\ UNCHANGED <<session, rd, op, res, panicked, foreign, timedOut, cbRet, untimed>>

\* isMsgSent: if a.open { res := <-a.readC; bytes.Equal(res, cmdMsgSentCheck) }
lcdIsMsgSent(t) ==
    /\ ~panicked
    /\ driver = "asustorLCD"
    /\ pc[t] = "lw_sent"
    /\ IF open
       THEN /\ readC # <<>>
            /\ readC' = Tail(readC)
            /\ foreign' = (foreign \/ Head(readC).tag # "cur")
            /\ Fail(t, IF Head(readC).b = cmdMsgSentCheck THEN "nil" ELSE "ErrDisplayNotWorking")
       ELSE Fail(t, "ErrDisplayNotWorking") /\ UNCHANGED <<readC, foreign>>
    /\ UNCHANGED <<open, con, btnC, keepListening, m, retry, wire, rd, op, res,
                   panicked, attempts, answered, timedOut, cbRet, direct>>

\* the return to the caller
lcdReturn(t) ==
    /\ ~panicked
    /\ driver = "asustorLCD"
    /\ pc[t] = "ret"
    /\ Goto(t, "idle")
    /\ op' = [op EXCEPT ![t] = "none"]
    /\ err' = [err EXCEPT ![t] = "nil"]
    /\ readC' = Retag(readC)
    /\ wire' = Retag(wire)
    /\ rd' = [r \in DOMAIN rd |-> [rd[r] EXCEPT !.buf = Old(rd[r].buf)]]
    /\ attempts' = 0
    /\ foreign' = FALSE
    /\ answered' = FALSE
    /\ timedOut' = FALSE
    /\ UNCHANGED <<open, con, btnC, keepListening, m, retry, res, panicked, cbRet,
                   direct>>

\* read: for a.open { i, er := a.con.Read(res) ...: the loop test and the call
lcdReadLoop(r) ==
    /\ ~panicked
    /\ driver = "asustorLCD"
    /\ rd[r].pc = "loop"
    /\ rd' = [rd EXCEPT ![r] = IF open /\ con = "open"
                                THEN [pc |-> "read", buf |-> Sentinel]
                                ELSE Idle]
    /\ UNCHANGED <<session, wire, pc, op, err, res, panicked, history, direct>>

\* read: Read returns a frame, which goes to btnC or to readC: at once when
\* the channel has room, and the send blocks otherwise
lcdReadFrame(r) ==
    /\ ~panicked
    /\ driver = "asustorLCD"
    /\ rd[r].pc = "read"
    /\ reading = "off"
    /\ wire # <<>>
    /\ wire' = Tail(wire)
    /\ IF CanPass(Head(wire))
       THEN Passed(Head(wire)) /\ rd' = [rd EXCEPT ![r] = [pc |-> "loop", buf |-> Sentinel]]
       ELSE rd' = [rd EXCEPT ![r] = [pc |-> "pass", buf |-> Head(wire)]] /\ UNCHANGED <<readC, btnC>>
    /\ UNCHANGED <<open, con, keepListening, m, retry, pc, op, err, res, panicked,
                   history, direct>>

\* read: if er != nil { return }
lcdReadError(r) ==
    /\ ~panicked
    /\ driver = "asustorLCD"
    /\ rd[r].pc = "readerr"
    /\ rd' = [rd EXCEPT ![r] = Idle]
    /\ UNCHANGED <<session, wire, pc, op, err, res, panicked, history, direct>>

\* read: the send that was blocked on a full channel
lcdReadPass(r) ==
    /\ ~panicked
    /\ driver = "asustorLCD"
    /\ rd[r].pc = "pass"
    /\ CanPass(rd[r].buf)
    /\ Passed(rd[r].buf)
    /\ rd' = [rd EXCEPT ![r] = [pc |-> "loop", buf |-> Sentinel]]
    /\ UNCHANGED <<open, con, keepListening, m, retry, wire, pc, op, err, res,
                   panicked, history, direct>>

\* Listen is called
lcdCallListen(t) ==
    /\ ~panicked
    /\ driver = "asustorLCD"
    /\ pc[t] = "idle"
    /\ op' = [op EXCEPT ![t] = "Listen"]
    /\ Goto(t, "ll_check")
    /\ cbRet' = "none"
    /\ UNCHANGED <<session, wire, rd, err, res, panicked, attempts, foreign,
                   answered, timedOut, direct>>

\* if !a.open { return }
lcdListen(t) ==
    /\ ~panicked
    /\ driver = "asustorLCD"
    /\ pc[t] = "ll_check"
    /\ IF ~open THEN ListenReturn(t) ELSE Goto(t, "ll_loop") /\ UNCHANGED op
    /\ UNCHANGED <<session, wire, rd, err, res, panicked, history, direct>>

\* for a.open
lcdListenLoop(t) ==
    /\ ~panicked
    /\ driver = "asustorLCD"
    /\ pc[t] = "ll_loop"
    /\ IF open THEN Goto(t, "ll_wait") /\ UNCHANGED op ELSE ListenReturn(t)
    /\ UNCHANGED <<session, wire, rd, err, res, panicked, history, direct>>

\* res := <-a.btnC
lcdListenReceive(t) ==
    /\ ~panicked
    /\ driver = "asustorLCD"
    /\ pc[t] = "ll_wait"
    /\ btnC # <<>>
    /\ res' = Dequeued(Head(btnC))
    /\ btnC' = Tail(btnC)
    /\ Goto(t, "ll_got")
    /\ cbRet' = "none"
    /\ UNCHANGED <<open, con, readC, keepListening, m, retry, wire, rd, op, err,
                   panicked, attempts, foreign, answered, timedOut, direct>>

\* if !l(int(res[3]), true) { return }
lcdListenDispatch(t) ==
    /\ ~panicked
    /\ driver = "asustorLCD"
    /\ pc[t] = "ll_got"
    /\ IF Len(res.b) < 4
       THEN panicked' = TRUE /\ UNCHANGED <<pc, op, cbRet>>
       ELSE \E goOn \in BOOLEAN :
               /\ cbRet' = IF goOn THEN "true" ELSE "false"
               /\ IF goOn THEN Goto(t, "ll_loop") /\ UNCHANGED op ELSE ListenReturn(t)
               /\ UNCHANGED panicked
    /\ res' = Sentinel
    /\ UNCHANGED <<session, wire, rd, err, attempts, foreign, answered, timedOut,
                   direct>>

\* somebody presses a button
lcdDeviceButton ==
    /\ ~panicked
    /\ driver = "asustorLCD"
    /\ con = "open"
    /\ Len(wire) < MaxWire
    /\ wire' = Append(wire, BtnFrame)
    /\ UNCHANGED <<session, rd, pc, op, err, res, panicked, history, direct>>

lcdListenerStep ==
    \/ lcdCallListen(Listener) \/ lcdListen(Listener) \/ lcdListenLoop(Listener)
    \/ lcdListenReceive(Listener) \/ lcdListenDispatch(Listener)

lcdOpenCloseStep(t) ==
    \/ lcdOpen(t) \/ lcdOpenFlush(t) \/ lcdOpenReady(t) \/ lcdOpenMark(t)
    \/ lcdClose(t) \/ lcdForceCloseCon(t)

lcdStep(t) ==
    \/ lcdOpen(t) \/ lcdOpenFlush(t) \/ lcdOpenReady(t) \/ lcdOpenMark(t)
    \/ lcdClose(t) \/ lcdForceCloseCon(t)
    \/ lcdEnable(t) \/ lcdEnableFlush(t)
    \/ lcdWrite(t) \/ lcdWriteFlush(t) \/ lcdIsMsgSent(t)
    \/ lcdReturn(t)

lcdReaderStep(r) == lcdReadLoop(r) \/ lcdReadFrame(r) \/ lcdReadError(r) \/ lcdReadPass(r)

NextLCD ==
    \/ lcdCall("c1", AllCalls) \/ lcdStep("c1")
    \/ \E r \in Readers : lcdReaderStep(r)
    \/ ReadWithTimeoutStep

InitLCD == driver = "asustorLCD" /\ Constructed /\ log = NoLog /\ clk = NoClock /\ NoCall /\ bs = NoScan

SpecLCD == InitLCD /\ [][NextLCD]_vars

\* One caller of Open and Close, one Listen loop, and buttons.
NextLCDListen ==
    \/ lcdCall("c1", {"Open", "Close"}) \/ lcdOpenCloseStep("c1") \/ lcdReturn("c1")
    \/ lcdListenerStep
    \/ \E r \in Readers : lcdReaderStep(r)
    \/ ReadWithTimeoutStep
    \/ lcdDeviceButton

SpecLCDListen == InitLCD /\ [][NextLCDListen]_vars

(***************************************************************************)
(* Part 4: qnap (src/generic.go 185-454). No lock, no channels: init does  *)
(* one probe through readWithTimeout, and Listen reads the connection      *)
(* itself.                                                                 *)
(***************************************************************************)
qnapCmdBtn == <<83, 5, 0>>
released == Append(qnapCmdBtn, 0)
upPressed == Append(qnapCmdBtn, 1)
downPressed == Append(qnapCmdBtn, 2)
bothPressed == Append(qnapCmdBtn, 3)
cmdEnable == <<77, 94, 1, 10>>
cmdDisable == <<77, 94, 0, 10>>
cmdWrite == <<77, 94, 1>>
cmdInit == <<77, 0>>
qnapCmdRdy == <<83, 1, 0, 125>>

\* Write's text: cut to 16 bytes, or filled with spaces
RECURSIVE qnapFill(_)
qnapFill(txt) ==
    IF Len(txt) < 16 THEN qnapFill(txt \o Repeat(16 - Len(txt))) ELSE txt
qnapTxt(txt) ==
    IF Len(txt) > 16 THEN SubSeq(txt, 1, 16) ELSE qnapFill(txt)

\* Write's frame: cmdWrite, h("4d0c0<line>10"), the text
qnapCnt(line, txt) == cmdWrite \o <<77, 12, line, 16>> \o qnapTxt(txt)

\* remove(s, i): the last element takes the place of element i
remove(s, i) == [j \in 1..(Len(s) - 1) |-> IF j = i THEN s[Len(s)] ELSE s[j]]

\* the first place of b in s, 0 if there is none
IndexOf(s, b) ==
    IF \E i \in 1..Len(s) : s[i] = b
    THEN CHOOSE i \in 1..Len(s) : s[i] = b /\ \A j \in 1..(i - 1) : s[j] # b
    ELSE 0

\* ensureOrder's loop over cmdBtn, from its k-th byte on
RECURSIVE ensureFrom(_, _, _)
ensureFrom(k, ordered, rest) ==
    IF k > Len(qnapCmdBtn)
    THEN IF Len(rest) > 0 THEN [ordered EXCEPT ![4] = rest[1]] ELSE ordered
    ELSE LET i == IndexOf(rest, qnapCmdBtn[k])
         IN  IF i = 0
             THEN ensureFrom(k + 1, ordered, rest)
             ELSE ensureFrom(k + 1, [ordered EXCEPT ![k] = qnapCmdBtn[k]], remove(rest, i))

ensureOrder(r) ==
    IF HasPrefix(r, qnapCmdBtn) THEN r ELSE ensureFrom(1, <<0, 0, 0, 0>>, r)

\* What the device may answer to cmdInit: nothing, ready, or the frame of a
\* button that is released just then.
qnapInitReplies == {<<>>, qnapCmdRdy, released}

qnapCall(t, ops) ==
    /\ ~panicked
    /\ driver = "qnap"
    /\ pc[t] = "idle"
    /\ \E o \in ops :
          /\ op' = [op EXCEPT ![t] = o]
          /\ Goto(t, CASE o = "Open" -> "qo_open"
                       [] o = "Close" -> "qc_close"
                       [] o = "Write" -> "qw_check"
                       [] OTHER -> "qe_check")
    /\ UNCHANGED <<session, wire, rd, err, res, panicked, history, direct>>

\* Open: if q.open { return nil }; init up to serial.Open
qnapOpen(t) ==
    /\ ~panicked
    /\ driver = "qnap"
    /\ pc[t] = "qo_open"
    /\ IF open
       THEN Fail(t, "nil") /\ UNCHANGED <<con, wire>>
       ELSE /\ \/ con' = "nil" /\ Fail(t, "ErrOpen")
               \/ con' = "open" /\ Goto(t, "qi_write") /\ UNCHANGED err
            /\ wire' = <<>>
    /\ UNCHANGED <<open, readC, btnC, keepListening, m, retry, rd, op, res,
                   panicked, history, direct>>

\* init: q.con.Write(q.cmdInit), then readWithTimeout is started
qnapInitWrite(t) ==
    /\ ~panicked
    /\ driver = "qnap"
    /\ pc[t] = "qi_write"
    /\ \/ /\ \E e \in {"ErrWrite", "ErrFileClosed"} :
                /\ (e = "ErrFileClosed") = (con # "open")
                /\ Fail(t, e)
          /\ con' = "closed"
          /\ wire' = <<>>
          /\ UNCHANGED <<attempts, answered, waiter, respReceived, timer, reading,
                         got, rerr>>
       \/ /\ con = "open"
          /\ attempts' = attempts + 1
          /\ \E rep \in qnapInitReplies :
                IF rep # <<>> /\ Len(wire) < MaxWire
                THEN /\ wire' = Append(wire, Frame(rep, "cur"))
                     /\ answered' = (answered \/ rep = qnapCmdRdy)
                ELSE UNCHANGED <<wire, answered>>
          /\ startRead
          /\ Goto(t, "qi_wait")
          /\ UNCHANGED <<con, err>>
    /\ UNCHANGED <<open, readC, btnC, keepListening, m, retry, rd, op, res,
                   panicked, foreign, timedOut, cbRet, step, lastBtn, driver, arg, out, bs, log, clk>>

\* init after waiter.Wait(): err != nil, or res[0:i] against cmdRdy
qnapInitReady(t) ==
    /\ ~panicked
    /\ driver = "qnap"
    /\ pc[t] = "qi_wait"
    /\ waiter = 0
    /\ IF rerr # "nil"
       THEN /\ con' = "closed"
            /\ wire' = <<>>
            /\ Fail(t, "ErrDisplayNotWorking")
            /\ UNCHANGED open
       ELSE IF got = qnapCmdRdy
       THEN /\ open' = TRUE
            /\ Fail(t, "nil")
            /\ UNCHANGED <<con, wire>>
       ELSE /\ open' = FALSE
            /\ con' = "closed"
            /\ wire' = <<>>
            /\ Fail(t, "ErrDisplayNotWorking")
    /\ UNCHANGED <<readC, btnC, keepListening, m, retry, rd, op, res, panicked,
                   history, direct>>

\* Close: if !q.open { return nil }; forceClose: q.open = false
qnapClose(t) ==
    /\ ~panicked
    /\ driver = "qnap"
    /\ pc[t] = "qc_close"
    /\ IF open
       THEN open' = FALSE /\ Goto(t, "qc_con") /\ UNCHANGED err
       ELSE Fail(t, "nil") /\ UNCHANGED open
    /\ UNCHANGED <<con, readC, btnC, keepListening, m, retry, wire, rd, op, res,
                   panicked, history, direct>>

\* forceClose: return q.con.Close()
qnapForceCloseCon(t) ==
    /\ ~panicked
    /\ driver = "qnap"
    /\ pc[t] = "qc_con"
    /\ con' = IF con = "nil" THEN "nil" ELSE "closed"
    /\ wire' = <<>>
    /\ pc' = [ListenAfterClose EXCEPT ![t] = "ret"]
    /\ err' = [err EXCEPT ![t] = "nil"]
    /\ UNCHANGED <<open, readC, btnC, keepListening, m, retry, rd, op, res,
                   panicked, history, direct>>

\* Enable: if !q.open { return ErrClosed }
qnapEnable(t) ==
    /\ ~panicked
    /\ driver = "qnap"
    /\ pc[t] = "qe_check"
    /\ IF ~open THEN Fail(t, "ErrClosed") ELSE Goto(t, "qe_write") /\ UNCHANGED err
    /\ UNCHANGED <<session, wire, rd, op, res, panicked, history, direct>>

\* Enable: _, err := q.con.Write(cmdEnable or cmdDisable); return err
qnapEnableWrite(t) ==
    /\ ~panicked
    /\ driver = "qnap"
    /\ pc[t] = "qe_write"
    /\ \/ /\ \E e \in {"ErrWrite", "ErrFileClosed"} :
                /\ (e = "ErrFileClosed") = (con # "open")
                /\ Fail(t, e)
          /\ UNCHANGED <<attempts, clk>>
       \/ /\ con = "open"
          /\ attempts' = attempts + 1
          /\ \E yes \in BOOLEAN : clk' = Sent(clk, IF yes THEN cmdEnable ELSE cmdDisable)
          /\ Fail(t, "nil")
    /\ UNCHANGED <<session, wire, rd, op, res, panicked, foreign, answered,
                   timedOut, cbRet, untimed>>

\* Write: if !q.open { return ErrClosed }
qnapWrite(t) ==
    /\ ~panicked
    /\ driver = "qnap"
    /\ pc[t] = "qw_check"
    /\ IF ~open THEN Fail(t, "ErrClosed") ELSE Goto(t, "qw_write") /\ UNCHANGED err
    /\ UNCHANGED <<session, wire, rd, op, res, panicked, history, direct>>

\* Write: n, err := q.con.Write(cnt); if n != len(cnt) { return
\* ErrMsgSizeMismatch }; return err
qnapWriteCnt(t) ==
    /\ ~panicked
    /\ driver = "qnap"
    /\ pc[t] = "qw_write"
    /\ \E line \in {0, 1} :
          LET cnt == qnapCnt(line, Hello)
          IN  \/ /\ con = "open"
                 /\ \E n \in {Len(cnt) - 1, Len(cnt)} :
                       /\ Fail(t, IF n # Len(cnt) THEN "ErrMsgSizeMismatch" ELSE "nil")
                       /\ clk' = Sent(Waited(clk), SubSeq(cnt, 1, n))
                 /\ attempts' = attempts + 1
              \/ /\ Fail(t, "ErrMsgSizeMismatch")
                 /\ clk' = Waited(clk)
                 /\ UNCHANGED attempts
    /\ UNCHANGED <<session, wire, rd, op, res, panicked, foreign, answered,
                   timedOut, cbRet, untimed>>

\* the return to the caller
qnapReturn(t) ==
    /\ ~panicked
    /\ driver = "qnap"
    /\ pc[t] = "ret"
    /\ Goto(t, "idle")
    /\ op' = [op EXCEPT ![t] = "none"]
    /\ err' = [err EXCEPT ![t] = "nil"]
    /\ wire' = Retag(wire)
    /\ attempts' = 0
    /\ foreign' = FALSE
    /\ answered' = FALSE
    /\ timedOut' = FALSE
    /\ UNCHANGED <<session, rd, res, panicked, cbRet, direct>>

\* Listen is called
qnapCallListen(t) ==
    /\ ~panicked
    /\ driver = "qnap"
    /\ pc[t] = "idle"
    /\ op' = [op EXCEPT ![t] = "Listen"]
    /\ Goto(t, "ql_check")
    /\ cbRet' = "none"
    /\ log' = IF log.on THEN NewLog ELSE log
    /\ UNCHANGED <<session, wire, rd, err, res, panicked, attempts, foreign,
                   answered, timedOut, waiter, respReceived, timer, reading, got,
                   rerr, step, lastBtn, driver, arg, out, bs, clk>>

\* if !q.open { return }; var lastBtn = 0; the first q.con.Read
qnapListen(t) ==
    /\ ~panicked
    /\ driver = "qnap"
    /\ pc[t] = "ql_check"
    /\ IF ~open
       THEN ListenReturn(t) /\ UNCHANGED lastBtn
       ELSE /\ Goto(t, IF con = "open" THEN "ql_read" ELSE "ql_err")
            /\ lastBtn' = 0
            /\ UNCHANGED op
    /\ UNCHANGED <<session, wire, rd, err, res, panicked, history, waiter,
                   respReceived, timer, reading, got, rerr, step, driver, arg, out, bs, log, clk>>

\* n, err := q.con.Read(res) returns a frame; res = q.ensureOrder(res)
qnapListenRead(t) ==
    /\ ~panicked
    /\ driver = "qnap"
    /\ pc[t] = "ql_read"
    /\ con = "open"
    /\ reading = "off"
    /\ wire # <<>>
    /\ res' = Dequeued(Frame(ensureOrder(Head(wire).b), Head(wire).tag))
    /\ wire' = Tail(wire)
    /\ Goto(t, "ql_got")
    /\ cbRet' = "none"
    /\ log' = IF log.on THEN [log EXCEPT !.raw = Append(@, Head(wire).b)] ELSE log
    /\ UNCHANGED <<session, rd, op, err, panicked, attempts, foreign, answered,
                   timedOut, waiter, respReceived, timer, reading, got, rerr, step,
                   lastBtn, driver, arg, out, bs, clk>>

\* if err != nil { return }
qnapListenError(t) ==
    /\ ~panicked
    /\ driver = "qnap"
    /\ pc[t] = "ql_err"
    /\ ListenReturn(t)
    /\ UNCHANGED <<session, wire, rd, err, res, panicked, history, direct>>

\* Mutant of Reported: a press of up or down is reported while lastBtn is 3.
ReportedAlways(f) ==
    IF f = released THEN lastBtn
    ELSE IF f = upPressed THEN 1
    ELSE IF f = downPressed THEN 2
    ELSE IF f = bothPressed THEN 3
    ELSE 0

\* The button the callback is called with for frame f, 0 when it is not
\* called: a press of up or down is dropped while lastBtn is 3.
Reported(f) ==
    IF f = released THEN lastBtn
    ELSE IF f = upPressed THEN (IF lastBtn = 3 THEN 0 ELSE 1)
    ELSE IF f = downPressed THEN (IF lastBtn = 3 THEN 0 ELSE 2)
    ELSE IF f = bothPressed THEN 3
    ELSE 0

Calls(f) == f = released \/ Reported(f) # 0

\* the arguments of that call: l(lastBtn, true) or l(lastBtn, false)
CallArgs(f) == IF f = released THEN <<lastBtn, TRUE>> ELSE <<Reported(f), FALSE>>

\* the callback's answer: return on false, the next Read on true
qnapListenAnswer(t, goOn) ==
    IF goOn
    THEN Goto(t, IF con = "open" THEN "ql_read" ELSE "ql_err") /\ UNCHANGED op
    ELSE ListenReturn(t)

\* the branches on res: lastBtn and the callback
qnapListenDispatch(t) ==
    /\ ~panicked
    /\ driver = "qnap"
    /\ pc[t] = "ql_got"
    /\ IF Calls(res.b)
       THEN /\ \E goOn \in BOOLEAN :
                  /\ cbRet' = IF goOn THEN "true" ELSE "false"
                  /\ qnapListenAnswer(t, goOn)
                  /\ lastBtn' = IF res.b = released
                                THEN (IF goOn THEN 0 ELSE lastBtn)
                                ELSE Reported(res.b)
            /\ log' = IF log.on THEN [log EXCEPT !.calls = Append(@, CallArgs(res.b))]
                      ELSE log
       ELSE /\ Goto(t, IF con = "open" THEN "ql_read" ELSE "ql_err")
            /\ UNCHANGED <<op, cbRet, lastBtn, log>>
    /\ res' = Sentinel
    /\ UNCHANGED <<session, wire, rd, err, attempts, foreign, answered, timedOut,
                   panicked, waiter, respReceived, timer, reading, got, rerr,
                   step, driver, arg, out, bs, clk>>

\* a button is pressed or released
qnapDeviceButton ==
    /\ ~panicked
    /\ driver = "qnap"
    /\ con = "open"
    /\ Len(wire) < MaxWire
    /\ log.on => Len(log.raw) + Len(wire) < MaxRaw
    /\ \E f \in {released, upPressed, downPressed, bothPressed} :
          wire' = Append(wire, Frame(f, "env"))
    /\ UNCHANGED <<session, rd, pc, op, err, res, panicked, history, direct>>

qnapStep(t) ==
    \/ qnapOpen(t) \/ qnapInitWrite(t) \/ qnapInitReady(t)
    \/ qnapClose(t) \/ qnapForceCloseCon(t)
    \/ qnapEnable(t) \/ qnapEnableWrite(t)
    \/ qnapWrite(t) \/ qnapWriteCnt(t)
    \/ qnapReturn(t)

qnapListenerStep ==
    \/ qnapCallListen(Listener) \/ qnapListen(Listener) \/ qnapListenRead(Listener)
    \/ qnapListenError(Listener) \/ qnapListenDispatch(Listener)

NextQnap ==
    \/ qnapCall("c1", AllCalls) \/ qnapStep("c1")
    \/ qnapListenerStep
    \/ ReadWithTimeoutStep
    \/ qnapDeviceButton

InitQnap == driver = "qnap" /\ Constructed /\ log = NoLog /\ clk = NoClock /\ NoCall /\ bs = NoScan

SpecQnap == InitQnap /\ [][NextQnap]_vars

\* One Listen loop with its history, the buttons, and a Close.
NextQnapListen ==
    \/ qnapCall("c1", {"Close"})
    \/ qnapClose("c1") \/ qnapForceCloseCon("c1") \/ qnapReturn("c1")
    \/ qnapListenerStep
    \/ qnapDeviceButton

InitQnapListen == driver = "qnap" /\ Constructed /\ log = NewLog /\ clk = NoClock /\ NoCall /\ bs = NoScan

SpecQnapListen == InitQnapListen /\ [][NextQnapListen]_vars

(***************************************************************************)
(* A session of any of the three drivers.                                  *)
(***************************************************************************)
(***************************************************************************)
(* The sessions that write, with the time kept.                            *)
(***************************************************************************)
\* TickMs milliseconds pass.
Tick ==
    /\ clk.on
    /\ clk.sinceFlush < DefaultDelayBetweenWrites \/ clk.sinceTx < DefaultDelayBetweenWrites
    /\ clk' = [clk EXCEPT !.sinceFlush = Min(DefaultDelayBetweenWrites, @ + TickMs),
                          !.sinceTx = Min(DefaultDelayBetweenWrites, @ + TickMs)]
    /\ UNCHANGED <<session, wire, rd, pc, op, err, res, panicked, history, untimed>>

NextTimed ==
    \/ Call("c1", AllCalls) \/ CallerStep("c1")
    \/ \E r \in Readers : ReaderStep(r)
    \/ qnapCall("c1", AllCalls) \/ qnapStep("c1")
    \/ ReadWithTimeoutStep
    \/ Tick

InitTimed == driver \in {"asustor", "qnap"} /\ Constructed /\ log = NoLog /\ clk = NewClock /\ NoCall /\ bs = NoScan

SpecTimed == InitTimed /\ [][NextTimed]_vars

(***************************************************************************)
(* The pure functions of the write path, applied to arguments of a bounded *)
(* set.                                                                    *)
(***************************************************************************)
Bytes == {0, 1, 127, 128, 255}
ByteSeqs == UNION {[1..n -> Bytes] : n \in 0..MaxLen}
\* texts of every length up to MaxTxt: one letter, two letters in turn, or
\* spaces
Texts ==
    {[i \in 1..n |-> IF c = Space THEN Space ELSE c + (i % p)] :
        n \in 0..MaxTxt, c \in {Space, 65, 200}, p \in {1, 2}}

\* out once f has returned v
Applied(f, v) == [out EXCEPT ![f] = [done |-> TRUE, v |-> v]]
applying == <<session, wire, rd, pc, op, err, res, panicked, history,
              waiter, respReceived, timer, reading, got, rerr, step,
              lastBtn, driver, arg, log, clk, bs>>

\* asustor.makemsg(arg)
callMakemsg ==
    /\ ~out["makemsg"].done
    /\ out' = Applied("makemsg", makemsg(arg))
    /\ UNCHANGED applying

\* asustor.strToBytes(line, arg)
callStrToBytes ==
    /\ ~out["strToBytes"].done
    /\ \E line \in {0, 1} : out' = Applied("strToBytes", strToBytes(line, arg))
    /\ UNCHANGED applying

\* asustorLCD.strToBytes(line, arg)
callLcdStrToBytes ==
    /\ ~out["lcdStrToBytes"].done
    /\ \E line \in {0, 1} : out' = Applied("lcdStrToBytes", lcdStrToBytes(line, arg))
    /\ UNCHANGED applying

\* cnt of qnap.Write(line, arg)
callQnapCnt ==
    /\ ~out["qnapCnt"].done
    /\ \E line \in {0, 1} : out' = Applied("qnapCnt", qnapCnt(line, arg))
    /\ UNCHANGED applying

NextPure == callMakemsg \/ callStrToBytes \/ callLcdStrToBytes \/ callQnapCnt

InitPure ==
    /\ driver = "asustor" /\ Constructed /\ log = NoLog /\ clk = NoClock
    /\ arg \in ByteSeqs \cup Texts
    /\ out = NoOut
    /\ bs = NoScan

SpecPure == InitPure /\ [][NextPure]_vars

(***************************************************************************)
(* read() at the level of bytes: the scan for a start byte, the Buffer and *)
(* its storage, pass(), and a receiver of the two channels.                *)
(***************************************************************************)
\* the bytes the line delivers
Alphabet == {cmdByte, replyByte, 1, 128}

\* everything but bs, and everything but bs and the two channels
besideQueues == <<open, con, keepListening, m, retry, wire, rd, pc, op, err, res,
                  panicked, history, waiter, respReceived, timer, reading, got,
                  rerr, step, lastBtn, driver, arg, out, log, clk>>
besideBytes == <<readC, btnC, besideQueues>>

\* the loop goes on with the next byte of res, or with the next Read
AfterByte(rest) == IF rest = <<>> THEN "read" ELSE "scan"

\* i, er := a.con.Read(res): the next 1..msgSize bytes of the stream
byteRead ==
    /\ driver = "asustor" /\ ~panicked /\ bs.on
    /\ bs.pc = "read"
    /\ open /\ con = "open"
    /\ Len(bs.all) < MaxStream
    /\ \E i \in 1..Min(msgSize, MaxStream - Len(bs.all)) :
          \E ch \in [1..i -> Alphabet] :
              bs' = [bs EXCEPT !.all = @ \o ch, !.chunk = ch, !.pc = "scan"]
    /\ UNCHANGED besideBytes

\* Mutant of IsStart: every byte starts a frame.
IsStartAny(found, c) == TRUE

\* if startFound || res[c] == a.replyByte || res[c] == a.cmdByte
IsStart(found, c) == found \/ c = replyByte \/ c = cmdByte

\* one round of the loop over res: buf.WriteByte(res[c]), which writes into
\* the Buffer's storage; with 5 bytes in buf the frame is complete
byteScan ==
    /\ driver = "asustor" /\ ~panicked /\ bs.on
    /\ bs.pc = "scan"
    /\ LET c == Head(bs.chunk)
           rest == Tail(bs.chunk)
           pos == Len(bs.all) - Len(bs.chunk) + 1
           nbuf == Append(bs.buf, c)
       IN  IF IsStart(bs.startFound, c)
           THEN bs' = [bs EXCEPT !.chunk = rest,
                                 !.buf = nbuf,
                                 !.store = [@ EXCEPT ![Len(nbuf)] = c],
                                 !.at = IF bs.buf = <<>> THEN pos ELSE @,
                                 !.startFound = Len(nbuf) # 5,
                                 !.pc = IF Len(nbuf) = 5 THEN "pass" ELSE AfterByte(rest)]
           ELSE bs' = [bs EXCEPT !.chunk = rest, !.pc = AfterByte(rest)]
    /\ UNCHANGED besideBytes

\* a.pass(buf.Bytes()); buf.Reset(): the slice sent shares the Buffer's
\* storage, and Reset keeps the storage
bytePass ==
    /\ driver = "asustor" /\ ~panicked /\ bs.on
    /\ bs.pc = "pass"
    /\ LET f == Frame(bs.buf, "ref")
       IN  /\ CanPass(f)
           /\ Passed(f)
           /\ bs' = [bs EXCEPT !.buf = <<>>,
                                !.routed = Append(@, [at |-> bs.at, b |-> bs.buf,
                                              q |-> IF IsBtn(f) THEN "btnC" ELSE "readC"]),
                                !.pc = AfterByte(bs.chunk)]
    /\ UNCHANGED besideQueues

\* what a receiver finds in a frame it took: the storage as it is now, or, a
\* write of the reader not being ordered with this read, as it was
Seen(f) == IF f.tag = "ref" THEN {f.b, bs.store} ELSE {f.b}

\* res := <-a.readC in responseEqual
byteTakeAck ==
    /\ driver = "asustor" /\ ~panicked /\ bs.on
    /\ readC # <<>>
    /\ readC' = Tail(readC)
    /\ \E s \in Seen(Head(readC)) :
          bs' = [bs EXCEPT !.took = [done |-> TRUE, enq |-> Head(readC).b, seen |-> s]]
    /\ UNCHANGED <<btnC, besideQueues>>

\* res := <-a.btnC in Listen
byteTakeBtn ==
    /\ driver = "asustor" /\ ~panicked /\ bs.on
    /\ btnC # <<>>
    /\ btnC' = Tail(btnC)
    /\ \E s \in Seen(Head(btnC)) :
          bs' = [bs EXCEPT !.took = [done |-> TRUE, enq |-> Head(btnC).b, seen |-> s]]
    /\ UNCHANGED <<readC, besideQueues>>

NextBytes == byteRead \/ byteScan \/ bytePass \/ byteTakeAck \/ byteTakeBtn

InitBytes ==
    /\ driver = "asustor" /\ Constructed /\ log = NoLog /\ clk = NoClock /\ NoCall
    /\ bs = NewScan

SpecBytes == InitBytes /\ [][NextBytes]_vars

InitAny == driver \in {"asustor", "asustorLCD", "qnap"} /\ Constructed /\ log = NoLog /\ clk = NoClock /\ NoCall /\ bs = NoScan

NextAny == Next \/ NextLCD \/ NextQnap

SpecAny == InitAny /\ [][NextAny]_vars

\* The two drivers the Listen contract is stated for, with their buttons.
InitListeners == driver \in {"asustor", "qnap"} /\ Constructed /\ log = NoLog /\ clk = NoClock /\ NoCall /\ bs = NoScan

NextListeners == NextListen \/ NextQnap

SpecListeners == InitListeners /\ [][NextListeners]_vars

(***************************************************************************)
(* Claims.                                                                 *)
(***************************************************************************)
InCall(t, o) == op[t] = o /\ pc[t] = "ret"

\* C1: a Write whose ack waits all fail returns ErrDisplayNotWorking after
\* having sent its frame exactly RetryLimit (10) times, never fewer, never
\* more.
C1_ExactlyTenAttempts ==
    \A t \in Callers :
        (InCall(t, "Write") /\ err[t] = "ErrDisplayNotWorking") => attempts = RetryLimit

\* C2: after a Close, an Open whose status probe the device answers with an
\* okay pattern (and whose wait did not run into its timeout) returns nil
\* and leaves the session open. In this model every Open that gets past its
\* "already open" test follows a Close of the open session.
C2_ReopenSucceeds ==
    \A t \in Callers :
        (InCall(t, "Open") /\ answered /\ ~timedOut) => (err[t] = "nil" /\ open)

\* C3: the critical sections of Open, Close, Write and Enable never overlap:
\* a caller past its Lock holds a.m, and no other caller is past its own.
LockPcs == {"idle", "op_lock", "cl_lock", "wr_lock", "en_lock"}
Inside(t) == pc[t] \notin LockPcs
C3_Serialized ==
    \A t \in Callers :
        Inside(t) => (m = t /\ \A u \in Callers \ {t} : ~Inside(u))

\* C3's case: a Write is in a retry's ack wait while another Write waits for
\* the lock.
C3_Witness ==
    \E t, u \in Callers :
        /\ t # u
        /\ op[t] = "Write" /\ pc[t] = "wr_resp" /\ attempts >= 2
        /\ op[u] = "Write" /\ pc[u] = "wr_lock"

\* C4: when Close runs on an open session while Listen is blocked on btnC,
\* the wake-up is never stuck: Close can take its next step, or Listen can.
C4_CloseWakesListener ==
    \A t \in Callers :
        (op[t] = "Close" /\ pc[t] \in {"fc_flag", "fc_readC", "fc_btnC", "fc_con"}
            /\ pc[Listener] = "ls_wait")
        => ENABLED (CallerStep(t) \/ listenReceive(Listener))

\* C5: open = true is never observable while the handshake is pending or
\* after the channel has been closed.
HandshakePending == \E t \in Callers : pc[t] \in {"es_flush", "es_resp"}
C5_OpenMeansFullyOpen == open => (~HandshakePending /\ con = "open")

\* C6: graduated handshake of asustorLCD.Open. An Open that has sent its
\* first probe and returns an error after its first wait failed, the
\* transport not having failed on an open connection, has sent the
\* clear-display frame as well; and it returns ErrDisplayNotWorking only
\* after three frames and three failed waits.
C6_GraduatedHandshake ==
    \A t \in Callers :
        (driver = "asustorLCD" /\ InCall(t, "Open") /\ attempts >= 1) =>
            /\ (step >= 2 /\ err[t] \notin {"nil", "ErrWrite", "ErrSize"}) => attempts >= 2
            /\ err[t] = "ErrDisplayNotWorking" => (step = 3 /\ attempts = 3)

\* C7: when Open has returned nil the session is open; when it has returned
\* an error the session is not open and the connection is not open.
C7_OpenOutcome ==
    \A t \in Callers :
        (InCall(t, "Open") /\ ~panicked) =>
            IF err[t] = "nil" THEN open ELSE (~open /\ con # "open")

\* C8: Write and Enable on a session that is not open return ErrClosed, send
\* nothing and take nothing off readC; Listen on a session that is not open
\* returns without calling the callback. For each of the three drivers.
Moves(t) == pc'[t] # pc[t]
OpenTests == {"wr_check", "en_lock", "lw_check", "le_check", "qw_check", "qe_check"}
ListenTests == {"ls_check", "ql_check"}
C8_Step ==
    /\ \A t \in Callers :
          (~open /\ pc[t] \in OpenTests /\ Moves(t)) =>
              /\ pc'[t] = "ret"
              /\ err'[t] = "ErrClosed"
              /\ UNCHANGED <<attempts, readC, wire, btnC>>
    /\ (~open /\ pc[Listener] \in ListenTests /\ Moves(Listener)) =>
              /\ pc'[Listener] = "idle"
              /\ cbRet' = "none"
              /\ UNCHANGED <<btnC, wire, keepListening>>
C8_ClosedCalls == [][C8_Step]_vars

C8_Witness == \E t \in Callers : InCall(t, "Write") /\ err[t] = "ErrClosed" /\ ~open

\* C9: every frame a Write takes off readC answers a frame that this Write
\* call sent.
C9_OwnAcksOnly == \A t \in Callers : op[t] = "Write" => ~foreign

\* C10: a callback answer of true sends Listen back to its loop, where, the
\* session being open, it waits for the next frame; an answer of false makes
\* the call return, and the callback is not called again in that call. For
\* asustor.Listen and qnap.Listen.
C10_Step ==
    /\ (pc[Listener] = "ls_got" /\ cbRet' = "true") => pc'[Listener] = "ls_loop"
    /\ (pc[Listener] = "ls_loop" /\ open /\ Moves(Listener)) => pc'[Listener] = "ls_wait"
    /\ (pc[Listener] = "ql_got" /\ cbRet' = "true" /\ con = "open") =>
            pc'[Listener] = "ql_read"
    /\ (pc[Listener] \in {"ls_got", "ql_got"} /\ cbRet' = "false") =>
            (pc'[Listener] = "idle" /\ op'[Listener] = "none")
C10_Continuation ==
    /\ [](cbRet = "false" => pc[Listener] = "idle")
    /\ [][C10_Step]_vars

C10_Witness == cbRet = "false" /\ pc[Listener] = "idle" /\ open

\* C11: the callback is never called for a frame that Listen took while the
\* session was not open. For each driver's Listen.
C11_Step ==
    (cbRet' # cbRet /\ cbRet' \in {"true", "false"}) => res.tag # "closed"
C11_NoCallbackAfterClose == [][C11_Step]_vars

\* C12: qnap debounce. While the last callback call was press(both), a frame
\* up-pressed or down-pressed leads to no call and leaves lastBtn at 3; and
\* when Listen has worked through exactly the frames up-pressed, both-pressed,
\* down-pressed, released, its calls were press(up), press(both),
\* release(both).
Last(s) == s[Len(s)]
BothReported == log.calls # <<>> /\ Last(log.calls) = <<3, FALSE>>
C12_Step ==
    (BothReported /\ pc[Listener] = "ql_got" /\ res.b \in {upPressed, downPressed}
        /\ Moves(Listener))
    => (log'.calls = log.calls /\ lastBtn' = 3)
Worked(raw) == log.raw = raw /\ pc[Listener] \in {"ql_read", "ql_err", "idle"}
C12_Debounce ==
    /\ [](Worked(<<upPressed, bothPressed, downPressed, released>>)
            => log.calls = << <<1, FALSE>>, <<3, FALSE>>, <<3, TRUE>> >>)
    /\ [][C12_Step]_vars

C12_Witness ==
    /\ Worked(<<upPressed, bothPressed, downPressed, released>>)
    /\ log.calls = << <<1, FALSE>>, <<3, FALSE>>, <<3, TRUE>> >>
    /\ cbRet = "true"

\* C13: qnap release attribution. Every release call follows a press call
\* and carries that press's button, which is 1, 2 or 3; every press call has
\* released = false, which holds by construction of the call's arguments.
C13_ReleaseAttribution ==
    \A i \in 1..Len(log.calls) :
        log.calls[i][2] =>
            /\ i > 1
            /\ ~log.calls[i - 1][2]
            /\ log.calls[i][1] = log.calls[i - 1][1]
            /\ log.calls[i][1] \in 1..3

\* C14: a write that fails on the transport (an error, or fewer bytes than
\* the frame) makes Write return that error at once: the call goes straight
\* to its return, nothing more is sent, no frame is taken from the ack queue
\* and the retry counter keeps its value.
C14_Step ==
    \A t \in Callers :
       /\ (pc[t] = "wr_flush" /\ Moves(t) /\ attempts' = attempts) =>
              /\ pc'[t] = "ret"
              /\ err'[t] \in {"ErrWrite", "ErrSize"}
              /\ UNCHANGED <<retry, readC, wire, timedOut>>
       /\ (pc[t] = "qw_write" /\ Moves(t)) =>
              /\ pc'[t] = "ret"
              /\ (err'[t] = "nil" => attempts' = attempts + 1)
              /\ (attempts' = attempts => err'[t] = "ErrMsgSizeMismatch")
              /\ UNCHANGED <<retry, readC, wire, timedOut>>
       /\ (pc[t] = "ret" /\ op[t] = "Write" /\ err[t] # "nil" /\ Moves(t)) =>
              /\ pc'[t] = "idle"
              /\ Len(wire') = Len(wire)
              /\ Len(readC') = Len(readC)
              /\ UNCHANGED retry
C14_WriteErrorReturns == [][C14_Step]_vars

C14_Witness ==
    \E t \in Callers :
       /\ InCall(t, "Write") /\ open /\ driver = "asustor"
       /\ err[t] = "ErrSize" /\ retry = 1 /\ ~timedOut

\* C15: of the transmissions that Write and Enable make on the connection,
\* none comes less than 10 ms after the transmission before it.
C15_Spacing == ~clk.close

\* C16: on an asustor session no call of Open, Write, Enable or Close is
\* stuck: the call that holds the lock can take its next step, or Listen
\* can take the frame of btnC that makes room for it.
C16_CallsNeverStuck ==
    \A t \in Callers :
        (driver = "asustor" /\ m = t /\ ~panicked) =>
            ENABLED (CallerStep(t) \/ listenReceive(Listener))

\* C17: on an open asustor session a Write of "Hello" that returns nil has
\* last sent the five bytes cmdByte, 0x12, 0x27, line, 0, then "Hello"
\* padded with spaces to 16 bytes, then the checksum of these 21 bytes: 22
\* bytes; and it returns nil in the step that takes a frame from the ack
\* queue, that frame being the message-sent acknowledgment.
HelloFrame(line, sum) ==
    <<240, 18, 39, line, 0, 72, 101, 108, 108, 111,
      32, 32, 32, 32, 32, 32, 32, 32, 32, 32, 32, sum>>
C17_Step ==
    \A t \in Callers :
        (pc[t] = "wr_resp" /\ Moves(t)) =>
            (err'[t] = "nil" /\ pc'[t] = "ret") =
                (readC # <<>> /\ open /\ Head(readC).b = <<241, 1, 39, 0, 25>>)
C17_EndToEnd ==
    /\ [](\A t \in Callers :
            (driver = "asustor" /\ InCall(t, "Write") /\ err[t] = "nil") =>
                clk.frame \in {HelloFrame(0, 125), HelloFrame(1, 126)})
    /\ [][C17_Step]_vars

C17_Witness ==
    \E t \in Callers :
        /\ driver = "asustor" /\ InCall(t, "Write") /\ err[t] = "nil"
        /\ clk.frame = HelloFrame(0, 125)

\* C17 as stated: the frame sent is 21 bytes long and its last byte is the
\* checksum of the bytes before it.
C17_Frame21 ==
    \A t \in Callers :
        (driver = "asustor" /\ InCall(t, "Write") /\ err[t] = "nil") =>
            /\ Len(clk.frame) = 21
            /\ clk.frame[21] = checksum(SubSeq(clk.frame, 1, 20))

\* C18: checksum round trip. For every byte sequence S, makemsg(S) is one
\* byte longer than S, its last byte is the sum of the bytes of S modulo
\* 256, and without its last byte it is S, which the call left as it was.
C18_RoundTrip ==
    out["makemsg"].done =>
        LET d == out["makemsg"].v
        IN  /\ Len(d) = Len(arg) + 1
            /\ d[Len(d)] = SumBytes(arg) % 256
            /\ SubSeq(d, 1, Len(d) - 1) = arg

C18_Witness ==
    /\ arg = <<255, 255, 128>>
    /\ out["makemsg"].v = <<255, 255, 128, 126>>

\* C19: text normalization. For every text, the text in the frame that
\* asustor, asustorLCD and qnap build is 16 bytes: the first 16 bytes of a
\* longer text, a shorter text followed by spaces; normalizing it again
\* gives the same 16 bytes; and the three write paths give the same text.
Normalized == [i \in 1..16 |-> IF i <= Len(arg) THEN arg[i] ELSE 32]
TxtOf(frame, hdr) == SubSeq(frame, hdr + 1, Len(frame))
C19_TextNormalized ==
    /\ \A f \in {"strToBytes", "lcdStrToBytes"} :
          out[f].done =>
              /\ Len(out[f].v) = 5 + 16
              /\ TxtOf(out[f].v, 5) = Normalized
              /\ prepareTxt(TxtOf(out[f].v, 5)) = TxtOf(out[f].v, 5)
    /\ out["qnapCnt"].done =>
          /\ Len(out["qnapCnt"].v) = Len(cmdWrite) + 4 + 16
          /\ TxtOf(out["qnapCnt"].v, Len(cmdWrite) + 4) = Normalized
          /\ qnapTxt(Normalized) = Normalized
    /\ (out["strToBytes"].done /\ out["qnapCnt"].done) =>
          TxtOf(out["strToBytes"].v, 5) = TxtOf(out["qnapCnt"].v, Len(cmdWrite) + 4)

C19_Witness ==
    /\ Len(arg) = 18 /\ arg[17] = 65
    /\ out["strToBytes"].done /\ out["qnapCnt"].done
    /\ TxtOf(out["strToBytes"].v, 5) = SubSeq(arg, 1, 16)

\* C20: Open on an open session and Close on a closed session return nil
\* in the step that tests a.open, and that step leaves the open flag, the
\* connection, both queues, the readers and the handshake as they were and
\* sends nothing.
OpenEntry == {"op_lock", "lo_open", "qo_open"}
CloseEntry == {"cl_lock", "lc_close", "qc_close"}
C20_Step ==
    \A t \in Callers :
        (Moves(t) /\ \/ open /\ pc[t] \in OpenEntry
                     \/ ~open /\ pc[t] \in CloseEntry) =>
            /\ pc'[t] = "ret"
            /\ err'[t] = "nil"
            /\ UNCHANGED <<open, con, readC, btnC, wire, rd, keepListening, retry,
                           attempts, step, waiter, timer, reading>>
C20_Idempotent == [][C20_Step]_vars

C20_Witness ==
    \E t \in Callers :
        /\ driver = "asustor" /\ InCall(t, "Open") /\ err[t] = "nil"
        /\ open /\ con = "open" /\ attempts = 0

\* C21: a frame whose trailing byte is not the checksum of the bytes before
\* it never makes a Write or Open's handshake succeed and never causes a
\* call of Listen's callback.
ValidFrame(f) == f # <<>> /\ f[Len(f)] = SumBytes(SubSeq(f, 1, Len(f) - 1)) % 256
C21_Step ==
    /\ (cbRet' # cbRet /\ cbRet' \in {"true", "false"}) => ValidFrame(res.b)
    /\ \A t \in Callers :
          (pc[t] \in {"wr_resp", "es_resp"} /\ Moves(t)
              /\ pc'[t] = "ret" /\ err'[t] = "nil") =>
                  (readC # <<>> /\ ValidFrame(Head(readC).b))
C21_InvalidFramesRejected == [][C21_Step]_vars

\* C22: byte-scanning demultiplexer. Every frame the reader routes is five
\* consecutive bytes of the stream that start with cmdByte or replyByte, no
\* byte between the frame before it and its first byte is one of the two,
\* and the frame goes to btnC alone if it starts with 240, 1, 128 and to
\* readC alone otherwise.
Markers == {240, 241}
C22_Routed ==
    \A k \in 1..Len(bs.routed) :
        LET r == bs.routed[k]
            prevEnd == IF k = 1 THEN 0 ELSE bs.routed[k - 1].at + 4
        IN  /\ Len(r.b) = 5
            /\ r.b = SubSeq(bs.all, r.at, r.at + 4)
            /\ r.b[1] \in Markers
            /\ r.at > prevEnd
            /\ \A j \in (prevEnd + 1)..(r.at - 1) : bs.all[j] \notin Markers
            /\ r.q = IF SubSeq(r.b, 1, 3) = <<240, 1, 128>> THEN "btnC" ELSE "readC"
C22_Step ==
    Len(bs'.routed) # Len(bs.routed) =>
        LET r == bs'.routed[Len(bs'.routed)]
        IN  IF r.q = "btnC"
            THEN btnC' = Append(btnC, Frame(r.b, "ref")) /\ readC' = readC
            ELSE readC' = Append(readC, Frame(r.b, "ref")) /\ btnC' = btnC
C22_Demultiplexer == []C22_Routed /\ [][C22_Step]_vars

C22_Witness ==
    /\ bs.all = <<1, 240, 1, 128, 1, 240, 128, 241>>
    /\ Len(bs.routed) = 1 /\ bs.routed[1].at = 2 /\ bs.routed[1].q = "btnC"
    /\ bs.buf = <<241>>

\* C23: the bytes a receiver finds in a frame it took from readC or btnC
\* are the bytes the reader had in buf when it sent the frame.
C23_FramesImmutable == bs.took.done => bs.took.seen = bs.took.enq

\* C24: at most one reader goroutine of an asustor session is reading the
\* connection or sending a frame at any time: the reader of an earlier Open
\* is gone once a later Open has started its own.
LiveReaders == {r \in DOMAIN rd : rd[r].pc \in {"read", "pass"}}
C24_OneReader == Cardinality(LiveReaders) <= 1

\* C25: the retry budget is per Write call: a Write that has passed Lock and
\* has sent nothing yet finds a.retry = 0, however earlier calls ended.
C25_FreshBudget ==
    \A t \in Callers :
        (op[t] = "Write" /\ pc[t] = "wr_check" /\ attempts = 0) => retry = 0

\* C26: the frame that makes a Write return nil is a reply to a frame that
\* this Write call sent; it is not a frame that was already under way or
\* queued when the call began. (The reply to the call's latest transmission
\* is one of the replies to the call's frames.)
C26_Step ==
    \A t \in Callers :
        (op[t] = "Write" /\ pc[t] = "wr_resp" /\ pc'[t] = "ret" /\ err'[t] = "nil") =>
            (readC # <<>> /\ Head(readC).tag = "cur")
C26_AckOfThisWrite == [][C26_Step]_vars

\* C27: what asustor.Listen does with a frame it took from btnC: it never
\* indexes a frame shorter than four bytes, and it calls the callback only
\* for a five-byte frame with the button prefix.
C27_Step ==
    pc[Listener] = "ls_got" =>
        /\ panicked' = panicked
        /\ cbRet' # cbRet => (Len(res.b) = 5 /\ IsBtn(res))
C27_ButtonFramesOnly == [][C27_Step]_vars

\* C28: the read goroutine and the timeout callback of readWithTimeout call
\* Done on the WaitGroup twice between them, never a third time: the counter
\* set by Add(2) never goes below zero.
C28_TwoDones == waiter \in 0..2
====
